---- MODULE Spec2Model ----
(***************************************************************************)
(* Model of the HCP1 bus protocol engine (SerialHCPClient): message        *)
(* counter tracking, dispatch of broadcast / slave packets, the command    *)
(* queue served on slave status requests, and the deferred response write. *)
(* SpecClose adds close() and the reopening of the port; DoorSpec is the   *)
(* door state machine (HormannGarageDoorOpener) over any HCPClient.        *)
(***************************************************************************)
EXTENDS Integers, Sequences, FiniteSets, TLC

\* ------------------------------------------------------------------ bounds
MaxPush == 2        \* number of pushCommand calls in a run
MaxInFlight == 1    \* responses waiting for their timer or their port write
MaxPending == 2     \* pushCommand promises the door waits for at a time
MaxDataLen == 16    \* longest payload handed to HCPPacket.fromData
MaxFired == 2       \* firings of the parser's inactivity timer in a run

\* --------------------------------------------------------------- constants
UAP1_ADDR == 40
UAP1_TYPE == 20
BROADCAST == 0
MASTER == 128
SLAVE == UAP1_ADDR
SLAVE_SCAN == 1
SLAVE_STATUS_REQUEST == 32
SLAVE_STATUS_RESPONSE == 41
FLAG_OPEN == 0
FLAG_CLOSE == 1
FLAG_TOGGLE_LIGHT == 2
FLAG_VENTING == 3
BYTE1_DEFAULT == 16
BYTE1_STOP == 0
PACKET_OVERHEAD == 3
MAX_PACKET_LENGTH == 18
\* enum DIRECTION and enum BROADCAST_STATUS_BYTE0_BITFIELD
DIRECTION_OPENING == 0
DIRECTION_CLOSING == 1
DOOR_CLOSED == 0
DOOR_OPENED == 1
EXT_RELAY_ON == 2
LIGHT_RELAY_ON == 3
ERROR_ACTIVE == 4
DOOR_DIRECTION == 5
DOOR_MOVING == 6
DOOR_VENTING == 7
\* enum CurrentDoorState and enum TargetDoorState
CurrentDoorState_OPEN == 0
CurrentDoorState_CLOSED == 1
CurrentDoorState_OPENING == 2
CurrentDoorState_CLOSING == 3
CurrentDoorState_STOPPED == 4
CurrentDoorState_VENTING == 5
TargetDoorState_OPEN == 0
TargetDoorState_CLOSED == 1
TargetDoorState_VENTING == 5
OTHER_ADDR == 170   \* some other slave of the bus (0xaa, as in the tests)

\* ------------------------------------------------------------ bit helpers
RECURSIVE BitXor(_, _)
BitXor(a, b) ==
    IF a = 0 THEN b
    ELSE IF b = 0 THEN a
    ELSE (((a % 2) + (b % 2)) % 2) + 2 * BitXor(a \div 2, b \div 2)

RECURSIVE BitOr(_, _)
BitOr(a, b) ==
    IF a = 0 THEN b
    ELSE IF b = 0 THEN a
    ELSE (IF a % 2 = 1 \/ b % 2 = 1 THEN 1 ELSE 0) + 2 * BitOr(a \div 2, b \div 2)

RECURSIVE Pow2(_)
Pow2(n) == IF n = 0 THEN 1 ELSE 2 * Pow2(n - 1)

\* CRC("CRC8", 8, 0x07, 0xf3, 0x00, false, false): one input bit
RECURSIVE CrcShift(_, _)
CrcShift(crc, n) ==
    IF n = 0 THEN crc
    ELSE CrcShift(IF crc >= 128 THEN BitXor((crc * 2) % 256, 7) ELSE crc * 2, n - 1)

\* the register after one input byte, for each value it is xored to
CrcTable == [b \in 0..255 |-> CrcShift(b, 8)]

RECURSIVE CrcFrom(_, _)
CrcFrom(crc, bytes) ==
    IF bytes = <<>> THEN crc
    ELSE CrcFrom(CrcTable[BitXor(crc, Head(bytes) % 256)], Tail(bytes))

computeCRC8(bytes) == CrcFrom(243, bytes)

\* ------------------------------------------------------------- HCPPacket
address(packet) == packet[1]
lengthNibble(packet) == packet[2] % 16
counterNibble(packet) == packet[2] \div 16
\* mutant of payload: subarray(2), the crc taken for payload
payload_withCrc(packet) == SubSeq(packet, PACKET_OVERHEAD, Len(packet))

payload(packet) == SubSeq(packet, PACKET_OVERHEAD, Len(packet) - 1)
crc(packet) == packet[Len(packet)]

\* fromData with crc omitted: [address, (counter << 4) + length, ...payload, crc]
fromData(addressByte, counter, data) ==
    LET head == <<addressByte, counter * 16 + Len(data)>> \o data
    IN  head \o <<computeCRC8(head)>>

\* a call that has not returned yet, and the result of a call: the Error
\* thrown (NoError: none) and the value returned
NotRun == [threw |-> "not run", returned |-> <<>>]
Returned(packet) == [threw |-> "", returned |-> packet]
Thrown(error) == [threw |-> error, returned |-> <<>>]

\* mutant of validate: the length nibble is not compared with the length
validate_crcOnly(packet) ==
    IF computeCRC8(SubSeq(packet, 1, Len(packet) - 1)) # crc(packet)
    THEN "Invalid CRC" ELSE ""

\* HCPPacket._validate: the error it throws, "" when the packet is consistent
validate(packet) ==
    IF computeCRC8(SubSeq(packet, 1, Len(packet) - 1)) # crc(packet)
    THEN "Invalid CRC"
    ELSE IF lengthNibble(packet) + PACKET_OVERHEAD # Len(packet)
    THEN "Invalid total length"
    ELSE ""

\* mutant of fromBuffer: a packet of PACKET_OVERHEAD bytes is let through
fromBuffer_overheadOnly(buffer, validated) ==
    IF Len(buffer) < PACKET_OVERHEAD
    THEN Thrown("HCPPacket cannot be shorter")
    ELSE IF Len(buffer) > MAX_PACKET_LENGTH
    THEN Thrown("HCPPacket cannot be longer")
    ELSE IF validated /\ validate(buffer) # ""
    THEN Thrown(validate(buffer))
    ELSE Returned(buffer)

\* HCPPacket.fromBuffer(buffer, validate)
fromBuffer(buffer, validated) ==
    IF Len(buffer) < PACKET_OVERHEAD + 1
    THEN Thrown("HCPPacket cannot be shorter")
    ELSE IF Len(buffer) > MAX_PACKET_LENGTH
    THEN Thrown("HCPPacket cannot be longer")
    ELSE IF validated /\ validate(buffer) # ""
    THEN Thrown(validate(buffer))
    ELSE Returned(buffer)

\* HCPPacket.fromData(addressByte, counterNibble, payload, crc?) with its
\* checks; crcByte = -1 stands for an omitted crc (tmpCRC = -1)
fromDataOrThrow(addressByte, counter, data, crcByte) ==
    IF addressByte > 255 THEN Thrown("address byte cannot exceed 255")
    ELSE IF counter > 15 THEN Thrown("counter nibble cannot exceed 15")
    ELSE IF crcByte # -1 /\ crcByte > 255 THEN Thrown("crc cannot exceed 255")
    ELSE LET head == <<addressByte, counter * 16 + Len(data)>> \o data
             buffer == head \o <<IF crcByte = -1 THEN computeCRC8(head) ELSE crcByte>>
         IN  fromBuffer(buffer, crcByte # -1)

\* ------------------------------------------------------ stream parsers
Min(a, b) == IF a < b THEN a ELSE b
Zeros(n) == [i \in 1..n |-> 0]
AllFalse(n) == [i \in 1..n |-> FALSE]
BATCH_BUFFER_LENGTH == 2 * MAX_PACKET_LENGTH - 1

\* the fields of a parser object after its constructor; a class without a
\* field keeps the value given here
Construct(parserClass) ==
    [ buffer |-> CASE parserClass = "PacketFilter" -> <<>>
                   [] parserClass = "SimpleHCPPacketParser" -> Zeros(MAX_PACKET_LENGTH)
                   [] OTHER -> Zeros(BATCH_BUFFER_LENGTH),
      started |-> FALSE,
      offset |-> IF parserClass = "SimpleHCPPacketParser" THEN -1 ELSE 0,
      packetLength |-> 0,
      tested |-> AllFalse(MAX_PACKET_LENGTH),
      minUntestedIdx |-> 0,
      thrown |-> "" ]

\* what a _transform call leaves: the object, and what it pushed downstream
Transformed(p, pushed) == [parser |-> p, pushed |-> pushed]

\* PacketFilter._filter, without its timer
\* mutant of filter: the clamp keeps the head of the chunk
filter_keepsHead(options, chunk) ==
    IF options.filterMaxLength /\ Len(chunk) > MAX_PACKET_LENGTH
    THEN SubSeq(chunk, 1, MAX_PACKET_LENGTH)
    ELSE chunk
filter(options, chunk) ==
    IF options.filterMaxLength /\ Len(chunk) > MAX_PACKET_LENGTH
    THEN SubSeq(chunk, Len(chunk) - MAX_PACKET_LENGTH + 1, Len(chunk))
    ELSE chunk

\* PacketFilter._filter of the package's parser module, which also takes
\* filterBreaks: the clamp comes first, a chunk it leaves alone loses one
\* leading 0x00
filterBreaks(options, chunk) ==
    IF options.filterMaxLength /\ Len(chunk) > MAX_PACKET_LENGTH
    THEN filter(options, chunk)
    ELSE IF options.filterBreaks /\ chunk # <<>> /\ Head(chunk) = 0
         THEN Tail(chunk)
         ELSE chunk

\* PacketFilter._transform
filterTransform(p, options, chunk) ==
    LET buffer == p.buffer \o filter(options, chunk)
    IN  Transformed([p EXCEPT !.buffer = buffer], <<buffer>>)

\* SimpleHCPPacketParser._resetPacket
resetPacket(p) ==
    [p EXCEPT !.offset = -1, !.packetLength = 0, !.buffer = Zeros(Len(p.buffer))]

\* mutant of parseByte: a packet pushed does not end the packet
parseByte_noRestart(p0, byte) ==
    LET p1 == IF ~p0.started THEN [resetPacket(p0) EXCEPT !.started = TRUE] ELSE p0
        offset == p1.offset + 1
        p2 == [p1 EXCEPT !.offset = offset,
                         !.buffer = IF offset < Len(p1.buffer)
                                    THEN [p1.buffer EXCEPT ![offset + 1] = byte]
                                    ELSE p1.buffer]
    IN
    IF offset = 0 THEN Transformed(p2, <<>>)
    ELSE IF offset = 1
    THEN Transformed([p2 EXCEPT !.packetLength = (byte % 16) + PACKET_OVERHEAD], <<>>)
    ELSE IF offset = p2.packetLength - 1
    THEN IF computeCRC8(SubSeq(p2.buffer, 1, offset)) = byte
         THEN LET made == fromBuffer(SubSeq(p2.buffer, 1, offset + 1), FALSE) IN
              IF made.threw # ""
              THEN Transformed([p2 EXCEPT !.thrown = made.threw], <<>>)
              ELSE Transformed(p2, <<made.returned>>)
         ELSE Transformed([p2 EXCEPT !.started = FALSE], <<>>)
    ELSE IF offset = MAX_PACKET_LENGTH
    THEN Transformed([p2 EXCEPT !.started = FALSE], <<>>)
    ELSE Transformed(p2, <<>>)

\* one turn of the loop of SimpleHCPPacketParser._transform, with
\* _parseCurrentByte
parseByte(p0, byte) ==
    LET p1 == IF ~p0.started THEN [resetPacket(p0) EXCEPT !.started = TRUE] ELSE p0
        offset == p1.offset + 1
        p2 == [p1 EXCEPT !.offset = offset,
                         !.buffer = IF offset < Len(p1.buffer)
                                    THEN [p1.buffer EXCEPT ![offset + 1] = byte]
                                    ELSE p1.buffer]
    IN
    IF offset = 0 THEN Transformed(p2, <<>>)
    ELSE IF offset = 1
    THEN Transformed([p2 EXCEPT !.packetLength = (byte % 16) + PACKET_OVERHEAD], <<>>)
    ELSE IF offset = p2.packetLength - 1
    THEN IF computeCRC8(SubSeq(p2.buffer, 1, offset)) = byte
         THEN LET made == fromBuffer(SubSeq(p2.buffer, 1, offset + 1), FALSE) IN
              IF made.threw # ""
              THEN Transformed([p2 EXCEPT !.thrown = made.threw], <<>>)
              ELSE Transformed([p2 EXCEPT !.started = FALSE], <<made.returned>>)
         ELSE Transformed([p2 EXCEPT !.started = FALSE], <<>>)
    ELSE IF offset = MAX_PACKET_LENGTH
    THEN Transformed([p2 EXCEPT !.started = FALSE], <<>>)
    ELSE Transformed(p2, <<>>)

\* SimpleHCPPacketParser._transform on the bytes already filtered; a throw
\* of fromBuffer ends the call
RECURSIVE simpleLoop(_, _, _)
simpleLoop(p, bytes, pushed) ==
    IF bytes = <<>> \/ p.thrown # "" THEN Transformed(p, pushed)
    ELSE LET r == parseByte(p, Head(bytes))
         IN  simpleLoop(r.parser, Tail(bytes), pushed \o r.pushed)

simpleTransform(p, options, chunk) == simpleLoop(p, filter(options, chunk), <<>>)

\* BatchHCPPacketParser._resetTestedArray
resetTestedArray(p) ==
    [p EXCEPT !.tested = AllFalse(MAX_PACKET_LENGTH), !.minUntestedIdx = 0]

\* mutant of popBuffer: the bytes are moved, the offset is left where it was
popBuffer_offsetKept(p, nbElements) ==
    [p EXCEPT !.buffer = [j \in 1..Len(p.buffer) |->
                             IF j + nbElements <= Len(p.buffer)
                             THEN p.buffer[j + nbElements] ELSE p.buffer[j]]]

\* BatchHCPPacketParser._pop_buffer: copyWithin keeps the tail as it was
popBuffer(p, nbElements) ==
    [p EXCEPT !.buffer = [j \in 1..Len(p.buffer) |->
                             IF j + nbElements <= Len(p.buffer)
                             THEN p.buffer[j + nbElements] ELSE p.buffer[j]],
              !.offset = p.offset - nbElements]

\* BatchHCPPacketParser._testPacket
testPacket(buffer, offset, length) ==
    /\ length >= PACKET_OVERHEAD + 1
    /\ computeCRC8(SubSeq(buffer, offset + 1, offset + length - 1)) = buffer[offset + length]

\* BatchHCPPacketParser._testPacketRange from candidate i on: the object, the
\* packet pushed if any, and the number of bytes to pop
Ranged(p, pushed, bytesToPop) == [parser |-> p, pushed |-> pushed, bytesToPop |-> bytesToPop]

RECURSIVE testPacketRange(_, _, _)
testPacketRange(p, i, untilByteIdx) ==
    LET maxTestIdx == Min(untilByteIdx - PACKET_OVERHEAD - 1, Len(p.tested) - 1)
        parsedLength == (p.buffer[i + 2] % 16) + PACKET_OVERHEAD
    IN
    IF i > maxTestIdx THEN Ranged(p, <<>>, 0)
    ELSE IF p.tested[i + 1] THEN testPacketRange(p, i + 1, untilByteIdx)
    ELSE IF i + parsedLength > untilByteIdx THEN testPacketRange(p, i + 1, untilByteIdx)
    ELSE IF testPacket(p.buffer, i, parsedLength)
    THEN Ranged(resetTestedArray(p),
                <<fromBuffer(SubSeq(p.buffer, i + 1, i + parsedLength), FALSE).returned>>,
                i + parsedLength)
    ELSE LET p1 == [p EXCEPT !.tested[i + 1] = TRUE] IN
         IF i = Len(p.tested) - 1
         THEN Ranged(resetTestedArray(p1), <<>>, Len(p.tested))
         ELSE IF i = p.minUntestedIdx
         THEN testPacketRange([p1 EXCEPT !.minUntestedIdx = p.minUntestedIdx + 1],
                              i + 1, untilByteIdx)
         ELSE testPacketRange(p1, i + 1, untilByteIdx)

\* what a call of BatchHCPPacketParser._transform leaves: the object, the
\* packets pushed, the bytes of the chunk copied into the buffer and, for each
\* turn of the loop, the bytes the buffer held at the test and the bytes popped
BatchTransformed(p, pushed, copied) ==
    [parser |-> p, pushed |-> pushed, copied |-> copied, rounds |-> <<>>]

\* the while loop of BatchHCPPacketParser._transform
RECURSIVE batchLoop(_, _, _, _, _)
batchLoop(p, filtered, bytesOffset, bkpOffset, pushed) ==
    IF bkpOffset = p.offset THEN BatchTransformed(p, pushed, bytesOffset)
    ELSE LET remainingBytes == Len(filtered) - bytesOffset
             chunkSize == Min(Len(p.buffer) - p.offset, remainingBytes)
             p1 == IF chunkSize > 0
                   THEN [p EXCEPT !.buffer = [j \in 1..Len(p.buffer) |->
                                                 IF j > p.offset /\ j <= p.offset + chunkSize
                                                 THEN filtered[bytesOffset + j - p.offset]
                                                 ELSE p.buffer[j]],
                                  !.offset = p.offset + chunkSize]
                   ELSE p
             r == testPacketRange(p1, p1.minUntestedIdx, p1.offset)
             p2 == IF r.bytesToPop > 0 THEN popBuffer(r.parser, r.bytesToPop) ELSE r.parser
             rest == batchLoop(p2, filtered,
                               IF chunkSize > 0 THEN bytesOffset + chunkSize ELSE bytesOffset,
                               p1.offset, pushed \o r.pushed)
         IN  [rest EXCEPT !.rounds = <<[held |-> p1.offset, taken |-> r.bytesToPop]>> \o @]

batchTransform(p, options, chunk) == batchLoop(p, filter(options, chunk), 0, -1, <<>>)

\* mutant of resetBuffer: the reset of PacketFilter, which no subclass overrides
resetBuffer_base(p, parserClass) ==
    [p EXCEPT !.buffer = Construct(parserClass).buffer]

\* _resetBuffer of each class, run when the timer of _filter fires
resetBuffer(p, parserClass) ==
    CASE parserClass = "PacketFilter" -> [p EXCEPT !.buffer = <<>>]
      [] parserClass = "SimpleHCPPacketParser" -> resetPacket(p)
      [] OTHER -> resetTestedArray([p EXCEPT !.buffer = Zeros(Len(p.buffer)), !.offset = 0])

transform(p, options, chunk) ==
    CASE options.parserClass = "PacketFilter" -> filterTransform(p, options, chunk)
      [] options.parserClass = "SimpleHCPPacketParser" -> simpleTransform(p, options, chunk)
      [] OTHER -> batchTransform(p, options, chunk)

\* the options of a parser constructed without any
DefaultOptions(parserClass) ==
    [parserClass |-> parserClass, packetTimeout |-> -1, filterMaxLength |-> FALSE]

\* ------------------------------------------------------- SerialHCPClient
getNextCounter(counter) == (counter + 1) % 16

\* mutant of OrFlags: byte0 |= flag, without the shift
RECURSIVE OrFlags_noShift(_)
OrFlags_noShift(flags) ==
    IF flags = <<>> THEN 0 ELSE BitOr(Head(flags), OrFlags_noShift(Tail(flags)))

RECURSIVE OrFlags(_)
OrFlags(flags) ==
    IF flags = <<>> THEN 0 ELSE BitOr(Pow2(Head(flags)), OrFlags(Tail(flags)))

\* mutant of createSlaveStatusPayload: byte 1 is 0x10 for an emergency stop
createSlaveStatusPayload_stopSwapped(flags, emergencyStop) ==
    <<SLAVE_STATUS_RESPONSE, OrFlags(flags),
      IF emergencyStop THEN BYTE1_DEFAULT ELSE BYTE1_STOP>>

createSlaveStatusPayload(flags, emergencyStop) ==
    <<SLAVE_STATUS_RESPONSE, OrFlags(flags),
      IF emergencyStop THEN BYTE1_STOP ELSE BYTE1_DEFAULT>>


\* ResponsePayload: kind tells which resolve/reject closures it carries
\* ("command": the promise of pushCommand number id, "scan", "default")
NoResponse == [kind |-> "none", id |-> 0, payload |-> <<>>, counter |-> -1]
NoError == ""

\* mutants of shiftQueue: pop() instead of shift(); the head read, not removed
shiftQueue_lifo(queue) ==
    [entry |-> queue[Len(queue)], rest |-> SubSeq(queue, 1, Len(queue) - 1)]

shiftQueue_peek(queue) == [entry |-> Head(queue), rest |-> queue]

\* mutant of shiftQueue: the queue is emptied when its head is taken
shiftQueue_all(queue) == [entry |-> Head(queue), rest |-> <<>>]

\* this.sendQueue.shift(): the entry taken and what stays queued
shiftQueue(queue) == [entry |-> Head(queue), rest |-> Tail(queue)]

\* mutant of processSlaveCommand: a scan is answered whatever its payload
processSlaveCommand_anyScan(packet, queue) ==
    LET pl == payload(packet) IN
    IF pl[1] = SLAVE_SCAN THEN
        IF FALSE
        THEN [err |-> "BadScanPayload", response |-> NoResponse, queue |-> queue]
        ELSE [err |-> NoError,
              response |-> [kind |-> "scan", id |-> 0,
                            payload |-> <<UAP1_TYPE, UAP1_ADDR>>, counter |-> -1],
              queue |-> queue]
    ELSE IF pl[1] = SLAVE_STATUS_REQUEST THEN
        IF Len(pl) # 1
        THEN [err |-> "BadStatusLen", response |-> NoResponse, queue |-> queue]
        ELSE IF Len(queue) > 0
        THEN LET s == shiftQueue(queue) IN
             [err |-> NoError,
              response |-> [kind |-> "command", id |-> s.entry.id,
                            payload |-> s.entry.payload, counter |-> -1],
              queue |-> s.rest]
        ELSE [err |-> NoError,
              response |-> [kind |-> "default", id |-> 0,
                            payload |-> createSlaveStatusPayload(<<>>, FALSE),
                            counter |-> -1],
              queue |-> queue]
    ELSE [err |-> "UnknownSlaveCommand", response |-> NoResponse, queue |-> queue]

\* mutant of processSlaveCommand: every code but the scan is a status request
processSlaveCommand_statusByDefault(packet, queue) ==
    LET pl == payload(packet) IN
    IF pl[1] = SLAVE_SCAN THEN
        IF Len(pl) # 2 \/ pl[2] # MASTER
        THEN [err |-> "BadScanPayload", response |-> NoResponse, queue |-> queue]
        ELSE [err |-> NoError,
              response |-> [kind |-> "scan", id |-> 0,
                            payload |-> <<UAP1_TYPE, UAP1_ADDR>>, counter |-> -1],
              queue |-> queue]
    ELSE IF pl[1] # SLAVE_SCAN THEN
        IF FALSE
        THEN [err |-> "BadStatusLen", response |-> NoResponse, queue |-> queue]
        ELSE IF Len(queue) > 0
        THEN LET s == shiftQueue(queue) IN
             [err |-> NoError,
              response |-> [kind |-> "command", id |-> s.entry.id,
                            payload |-> s.entry.payload, counter |-> -1],
              queue |-> s.rest]
        ELSE [err |-> NoError,
              response |-> [kind |-> "default", id |-> 0,
                            payload |-> createSlaveStatusPayload(<<>>, FALSE),
                            counter |-> -1],
              queue |-> queue]
    ELSE [err |-> "UnknownSlaveCommand", response |-> NoResponse, queue |-> queue]

\* result of a call that may throw: err is the thrown error (or NoError)
processSlaveCommand(packet, queue) ==
    LET pl == payload(packet) IN
    IF pl[1] = SLAVE_SCAN THEN
        IF Len(pl) # 2 \/ pl[2] # MASTER
        THEN [err |-> "BadScanPayload", response |-> NoResponse, queue |-> queue]
        ELSE [err |-> NoError,
              response |-> [kind |-> "scan", id |-> 0,
                            payload |-> <<UAP1_TYPE, UAP1_ADDR>>, counter |-> -1],
              queue |-> queue]
    ELSE IF pl[1] = SLAVE_STATUS_REQUEST THEN
        IF Len(pl) # 1
        THEN [err |-> "BadStatusLen", response |-> NoResponse, queue |-> queue]
        ELSE IF Len(queue) > 0
        THEN LET s == shiftQueue(queue) IN
             [err |-> NoError,
              response |-> [kind |-> "command", id |-> s.entry.id,
                            payload |-> s.entry.payload, counter |-> -1],
              queue |-> s.rest]
        ELSE [err |-> NoError,
              response |-> [kind |-> "default", id |-> 0,
                            payload |-> createSlaveStatusPayload(<<>>, FALSE),
                            counter |-> -1],
              queue |-> queue]
    ELSE [err |-> "UnknownSlaveCommand", response |-> NoResponse, queue |-> queue]

\* mutants of counterAccepted: a broadcast is checked like the rest; every
\* mismatch only resyncs; only the slave address is checked
counterAccepted_strict(packet, nmc) == counterNibble(packet) = nmc

counterAccepted_resync(packet, nmc) == TRUE

counterAccepted_slaveOnly(packet, nmc) ==
    counterNibble(packet) = nmc \/ address(packet) # SLAVE

\* the counter check that opens processMessage: a mismatch is only logged for
\* a broadcast and throws for every other address
counterAccepted(packet, nmc) ==
    counterNibble(packet) = nmc \/ address(packet) = BROADCAST

\* mutant of counterOnDispatch: the counter is assigned after the dispatch
counterOnDispatch_late(nmc, nextCounter) == nmc

\* nextMessageCounter is assigned before the dispatch, so it keeps the
\* advanced value when unpackBroadcast or processSlaveCommand throws
counterOnDispatch(nmc, nextCounter) == nextCounter

\* mutant of counterAfterResponse: no second increment
counterAfterResponse_same(counter) == counter

\* "increment counter again for next message to be read"
counterAfterResponse(counter) == getNextCounter(counter)

\* processMessage: the fields are the engine state after the call (also when
\* it throws), the thrown error, the "data" event payload and the response
processMessage(packet, nmc, queue) ==
    LET nextCounter == getNextCounter(counterNibble(packet))
        unchanged == [nmc |-> nmc, queue |-> queue, err |-> NoError,
                      data |-> <<>>, response |-> NoResponse]
        synced == [unchanged EXCEPT !.nmc = counterOnDispatch(nmc, nextCounter)]
    IN
    IF ~counterAccepted(packet, nmc)
    THEN [unchanged EXCEPT !.err = "BadCounter"]
    ELSE IF address(packet) = BROADCAST THEN
        IF Len(payload(packet)) # 2
        THEN [synced EXCEPT !.err = "BadPayloadLen"]
        ELSE [synced EXCEPT !.data = payload(packet)]
    ELSE IF address(packet) = SLAVE THEN
        LET r == processSlaveCommand(packet, queue) IN
        IF r.err # NoError
        THEN [synced EXCEPT !.err = r.err]
        ELSE LET counter == IF r.response.counter = -1 THEN nextCounter
                            ELSE r.response.counter
             IN  [unchanged EXCEPT !.nmc = counterAfterResponse(counter),
                                   !.queue = r.queue,
                                   !.response = [r.response EXCEPT !.counter = counter]]
    ELSE synced

\* ------------------------------------------------------- door state machine
\* a cell of the door (currentState, targetState, lightState): null, or a value
Unset == <<>>
NoCall == [op |-> "none", arg |-> <<>>, pushed |-> <<>>, result |-> "", log |-> ""]

\* SerialHCPClient.extractBitfield(byte)[i]
extractBitfield(byte, i) == (byte \div Pow2(i)) % 2 = 1

\* mutant of broadcastToCurrentState: the error bit is not looked at
broadcastToCurrentState_noErrorBit(status) ==
    LET bit(i) == extractBitfield(status[1], i)
        light == bit(LIGHT_RELAY_ON)
        ok(d) == [err |-> NoError, door |-> d, light |-> light]
    IN
    IF bit(DOOR_MOVING)
    THEN IF bit(DOOR_DIRECTION) = (DIRECTION_OPENING # 0)
         THEN ok(CurrentDoorState_OPENING) ELSE ok(CurrentDoorState_CLOSING)
    ELSE IF bit(DOOR_OPENED) THEN ok(CurrentDoorState_OPEN)
    ELSE IF bit(DOOR_CLOSED) THEN ok(CurrentDoorState_CLOSED)
    ELSE IF bit(DOOR_VENTING) THEN ok(CurrentDoorState_VENTING)
    ELSE ok(CurrentDoorState_STOPPED)

\* mutant of broadcastToCurrentState: an active error is decoded as the door
\* state STOPPED
broadcastToCurrentState_stopped(status) ==
    LET bit(i) == extractBitfield(status[1], i)
        light == bit(LIGHT_RELAY_ON)
        ok(d) == [err |-> NoError, door |-> d, light |-> light]
        error(e) == [err |-> e, door |-> -1, light |-> FALSE]
    IN
    IF bit(ERROR_ACTIVE) THEN ok(CurrentDoorState_STOPPED)
    ELSE IF bit(DOOR_MOVING)
    THEN IF bit(DOOR_DIRECTION) = (DIRECTION_OPENING # 0)
         THEN ok(CurrentDoorState_OPENING) ELSE ok(CurrentDoorState_CLOSING)
    ELSE IF bit(DOOR_OPENED) THEN ok(CurrentDoorState_OPEN)
    ELSE IF bit(DOOR_CLOSED) THEN ok(CurrentDoorState_CLOSED)
    ELSE IF bit(DOOR_VENTING) THEN ok(CurrentDoorState_VENTING)
    ELSE error("Unknown status")

\* mutant of broadcastToCurrentState: the closed bit is looked at before the
\* opened bit
broadcastToCurrentState_closedFirst(status) ==
    LET bit(i) == extractBitfield(status[1], i)
        light == bit(LIGHT_RELAY_ON)
        ok(d) == [err |-> NoError, door |-> d, light |-> light]
        error(e) == [err |-> e, door |-> -1, light |-> FALSE]
    IN
    IF bit(ERROR_ACTIVE) THEN error("Error active")
    ELSE IF bit(DOOR_MOVING)
    THEN IF bit(DOOR_DIRECTION) = (DIRECTION_OPENING # 0)
         THEN ok(CurrentDoorState_OPENING) ELSE ok(CurrentDoorState_CLOSING)
    ELSE IF bit(DOOR_CLOSED) THEN ok(CurrentDoorState_CLOSED)
    ELSE IF bit(DOOR_OPENED) THEN ok(CurrentDoorState_OPEN)
    ELSE IF bit(DOOR_VENTING) THEN ok(CurrentDoorState_VENTING)
    ELSE error("Unknown status")

\* broadcastToCurrentState: a GarageState, or the Error returned
broadcastToCurrentState(status) ==
    LET bit(i) == extractBitfield(status[1], i)
        light == bit(LIGHT_RELAY_ON)
        ok(d) == [err |-> NoError, door |-> d, light |-> light]
        error(e) == [err |-> e, door |-> -1, light |-> FALSE]
    IN
    IF bit(ERROR_ACTIVE) THEN error("Error active")
    ELSE IF bit(DOOR_MOVING)
    THEN \* switch on the direction bit: Boolean(OPENING) is false, Boolean(CLOSING) true
         IF bit(DOOR_DIRECTION) = (DIRECTION_OPENING # 0)
         THEN ok(CurrentDoorState_OPENING) ELSE ok(CurrentDoorState_CLOSING)
    ELSE IF bit(DOOR_OPENED) THEN ok(CurrentDoorState_OPEN)
    ELSE IF bit(DOOR_CLOSED) THEN ok(CurrentDoorState_CLOSED)
    ELSE IF bit(DOOR_VENTING) THEN ok(CurrentDoorState_VENTING)
    ELSE error("Unknown status")

\* MockHCPClient.doorStateToBroadcastStatusByte
doorStateToBroadcastStatusByte(state) ==
    CASE state = CurrentDoorState_CLOSED -> Pow2(DOOR_CLOSED)
      [] state = CurrentDoorState_OPEN -> Pow2(DOOR_OPENED)
      [] state = CurrentDoorState_CLOSING ->
            BitOr(Pow2(DOOR_MOVING), Pow2(DOOR_DIRECTION) * DIRECTION_CLOSING)
      [] state = CurrentDoorState_OPENING ->
            BitOr(Pow2(DOOR_MOVING), Pow2(DOOR_DIRECTION) * DIRECTION_OPENING)
      [] state = CurrentDoorState_VENTING -> Pow2(DOOR_VENTING)
      [] state = CurrentDoorState_STOPPED -> Pow2(ERROR_ACTIVE)

\* MockHCPClient.garageStateToBroadcastStatus: byte 1 is set to 0xff, byte 0
\* is the door byte with the bit of lightStateToBroadcastStatusByte
garageStateToBroadcastStatus(doorState, light) ==
    << BitOr(doorStateToBroadcastStatusByte(doorState),
             IF light THEN Pow2(LIGHT_RELAY_ON) ELSE 0),
       255 >>

\* targetStateToRequest: the flags pushed for a target (emergencyStop undefined)
targetStateToRequest(target) ==
    IF target = TargetDoorState_OPEN THEN <<FLAG_OPEN>>
    ELSE IF target = TargetDoorState_CLOSED THEN <<FLAG_CLOSE>>
    ELSE <<FLAG_VENTING>>

\* mutants of broadcastChanged: every broadcast is decoded; the comparison is
\* inverted
broadcastChanged_always(status, stored) == TRUE

broadcastChanged_inverted(status, stored) == status[1] = stored[1]

\* status[0] != this.broadcastStatus[0]: only byte 0 is compared
broadcastChanged(status, stored) == status[1] # stored[1]

\* ------------------------------------------------------------------ state
VARIABLES
    nextMessageCounter, \* SerialHCPClient.nextMessageCounter
    sendQueue,          \* SerialHCPClient.sendQueue: <<[id, payload], ...>>
    commands,           \* payload of every pushCommand call so far, by id
    promise,            \* state of the promise returned by pushCommand id
    timers,             \* responses sleeping in sendPacket before the write
    writeQueue,         \* packets handed to port.write, callback not yet run
    consumed,           \* ids of the commands shifted off sendQueue, in order
    lastPacket,         \* packet of the onNewPacket call of this turn (else <<>>)
    expected,           \* nextMessageCounter when that call started (else -1)
    response,           \* what processMessage returned in that call
    out,                \* events emitted and promises settled in this turn
    portOpen,           \* SerialPort.isOpen
    \* HormannGarageDoorOpener, over any HCPClient
    currentState,       \* <<>> for null, else <<CurrentDoorState>>
    targetState,        \* <<>> for null, else <<TargetDoorState>>
    lightState,         \* <<>> for null, else <<boolean>>
    broadcastStatus,    \* the two status bytes kept by onBroadcast
    doorPromises,       \* pushCommand promises the door still waits for
    doorCall,           \* the door handler run in this turn (else NoCall)
    doorOut,            \* events the door emitted in this turn
    doorHistory,        \* what the door was handed so far: byte 0 of the last
                        \* broadcast, the last target asked for, and whether
                        \* the calls asking for it in a row since the last
                        \* broadcast have pushed a command
    \* a static function of HCPPacket, SerialHCPClient or the door, called once
    fnIn,               \* the function and its arguments (<<>>: none called)
    fnOut,              \* what the call returned or threw (NotRun before it)
    \* a stream parser and the bytes on their way to it
    options,            \* the class constructed and its PacketFilterParams
    parser,             \* the fields of the parser object
    timer,              \* PacketFilter.timer is pending
    pushes,             \* what the parser pushed downstream, in order
    wire,               \* bytes not yet written to the parser
    fresh,              \* a parser constructed when the timer last fired and
                        \* written the same chunks since
    freshPushes,        \* what that parser pushed
    history             \* the stream, what was written of it, timers fired

clientVars == <<nextMessageCounter, sendQueue, commands, promise, timers,
                writeQueue, consumed, lastPacket, expected, response, out, portOpen>>
doorVars == <<currentState, targetState, lightState, broadcastStatus,
              doorPromises, doorCall, doorOut, doorHistory>>
fnVars == <<fnIn, fnOut>>
parserVars == <<options, parser, timer, pushes, wire, fresh, freshPushes, history>>
notClient == <<doorVars, fnVars, parserVars>>
notDoor == <<clientVars, fnVars, parserVars>>
vars == <<clientVars, doorVars, fnVars, parserVars>>

Ev(type, kind, id, bytes) == [type |-> type, kind |-> kind, id |-> id, bytes |-> bytes]

\* packets the parser can hand to onNewPacket: valid frames, 1..15 payload bytes
\* their counters: 14 resyncs the engine to 15, and 15 wraps to 0
InCounters == {14, 15}
\* broadcast status (2 bytes) and a broadcast of another length
BroadcastPayloads == { <<14, 2>>, <<170, 187, 204>> }
\* status request, status request of length 2, scan, scan not from the master,
\* scan of one byte,
\* and a payload whose first byte is no slave command
SlavePayloads == { <<SLAVE_STATUS_REQUEST>>, <<SLAVE_STATUS_REQUEST, MASTER>>,
                   <<SLAVE_SCAN, MASTER>>, <<SLAVE_SCAN, UAP1_ADDR>>, <<SLAVE_SCAN>>,
                   <<14, 2>> }
InFrames == ({BROADCAST} \X BroadcastPayloads) \cup ({SLAVE} \X SlavePayloads)
                \cup {<<OTHER_ADDR, <<SLAVE_STATUS_REQUEST>>>>}
InPackets == { fromData(f[1], c, f[2]) : f \in InFrames, c \in InCounters }

\* commands the door state machine pushes
InCommands == { <<<<FLAG_OPEN>>, FALSE>>, <<<<>>, TRUE>> }

\* the client and the door as their constructors leave them
Constructed ==
    /\ nextMessageCounter = 1
    /\ sendQueue = <<>>
    /\ commands = <<>>
    /\ promise = <<>>
    /\ timers = <<>>
    /\ writeQueue = <<>>
    /\ consumed = <<>>
    /\ lastPacket = <<>>
    /\ expected = -1
    /\ response = NoResponse
    /\ out = <<>>
    /\ portOpen = TRUE
    /\ currentState = Unset
    /\ targetState = Unset
    /\ lightState = Unset
    /\ broadcastStatus = <<0, 0>>
    /\ doorPromises = <<>>
    /\ doorCall = NoCall
    /\ doorOut = <<>>
    /\ doorHistory = [byte0 |-> Unset, lastSet |-> Unset, pushedFor |-> FALSE]

\* the parser a SerialHCPClient constructs, nothing read from the port yet
NoStream == [garbage |-> <<>>, frames |-> <<>>]
\* the last call of _transform of a batch parser: the bytes of the filtered
\* chunk it did not copy into the buffer, and of the turns of its loop those
\* that found the buffer full, those that found it full and popped nothing,
\* and those that popped more than the buffer held
BatchCall(filtered, r) ==
    LET Turns(Cond(_)) == Cardinality({k \in 1..Len(r.rounds) : Cond(r.rounds[k])})
        Full(turn) == turn.held = BATCH_BUFFER_LENGTH
        FullKept(turn) == Full(turn) /\ turn.taken = 0
        OverPopped(turn) == turn.taken > turn.held
    IN  [uncopied |-> Len(filtered) - r.copied, full |-> Turns(Full),
         fullKept |-> Turns(FullKept), overPopped |-> Turns(OverPopped)]
\* none yet, or another class
NoBatchCall == [uncopied |-> 0, full |-> 0, fullKept |-> 0, overPopped |-> 0]
History(stream) ==
    [stream |-> stream, fed |-> 0, fired |-> 0, cut |-> FALSE, pushedBefore |-> 0,
     batchCall |-> NoBatchCall]

ParserConstructed(opts, stream, bytes) ==
    /\ options = opts
    /\ parser = Construct(opts.parserClass)
    /\ timer = FALSE
    /\ pushes = <<>>
    /\ wire = bytes
    /\ fresh = Construct(opts.parserClass)
    /\ freshPushes = <<>>
    /\ history = History(stream)

NoParserInput == ParserConstructed(DefaultOptions("BatchHCPPacketParser"), NoStream, <<>>)

Init ==
    /\ Constructed
    /\ NoParserInput
    /\ fnIn = <<>>
    /\ fnOut = NotRun

\* Handlers run one at a time, each from the idle event loop: what the previous
\* one emitted has been delivered to the listeners before the next one starts.
Idle == lastPacket = <<>> /\ out = <<>>

NoPacket ==
    /\ lastPacket' = <<>>
    /\ expected' = -1
    /\ response' = NoResponse

pushCommand(flags, emergencyStop) ==
    /\ Idle
    /\ Len(commands) < MaxPush
    /\ LET pl == createSlaveStatusPayload(flags, emergencyStop)
           id == Len(commands) + 1
       IN  /\ sendQueue' = Append(sendQueue, [id |-> id, payload |-> pl])
           /\ commands' = Append(commands, pl)
           /\ promise' = Append(promise, "pending")
    /\ NoPacket
    /\ out' = <<>>
    /\ UNCHANGED <<nextMessageCounter, timers, writeQueue, consumed, portOpen>>
    /\ UNCHANGED notClient

\* late: MIN_RESPONSE_DELAY_MS - Date.now() + timestamp <= 0, sendPacket then
\* calls port.write at once instead of sleeping first
onNewPacket(packet, late) ==
    LET r == processMessage(packet, nextMessageCounter, sendQueue)
        sent == [packet |-> fromData(MASTER, r.response.counter, r.response.payload),
                 kind |-> r.response.kind, id |-> r.response.id,
                 request |-> counterNibble(packet)]
    IN
    /\ Idle
    /\ portOpen
    /\ r.response # NoResponse => Len(timers) + Len(writeQueue) < MaxInFlight
    /\ r.response = NoResponse => ~late
    /\ nextMessageCounter' = r.nmc
    /\ sendQueue' = r.queue
    /\ lastPacket' = packet
    /\ expected' = nextMessageCounter
    /\ response' = r.response
    /\ consumed' = IF r.response.kind = "command"
                   THEN Append(consumed, r.response.id) ELSE consumed
    /\ out' = IF r.err # NoError THEN <<Ev("error", r.err, 0, <<>>)>>
              ELSE IF r.data # <<>> THEN <<Ev("data", "", 0, r.data)>>
              ELSE <<>>
    /\ IF r.response = NoResponse THEN UNCHANGED <<timers, writeQueue>>
       ELSE IF late THEN /\ writeQueue' = Append(writeQueue, sent)
                         /\ UNCHANGED timers
       ELSE /\ timers' = Append(timers, sent)
            /\ UNCHANGED writeQueue
    /\ UNCHANGED <<commands, promise, portOpen>>
    /\ UNCHANGED notClient

RemoveAt(seq, i) == SubSeq(seq, 1, i - 1) \o SubSeq(seq, i + 1, Len(seq))

\* mutant of timerFires: the response is resolved when the write is issued,
\* not when the port confirms it
timerFires_resolves(i) ==
    /\ Idle
    /\ i \in 1..Len(timers)
    /\ writeQueue' = Append(writeQueue, timers[i])
    /\ timers' = RemoveAt(timers, i)
    /\ promise' = IF timers[i].kind = "command"
                  THEN [promise EXCEPT ![timers[i].id] = "resolved"] ELSE promise
    /\ NoPacket
    /\ out' = <<>>
    /\ UNCHANGED <<nextMessageCounter, sendQueue, commands, consumed, portOpen>>
    /\ UNCHANGED notClient

\* the setTimeout of sendPacket expires: port.write(packet, callback)
timerFires(i) ==
    /\ Idle
    /\ i \in 1..Len(timers)
    /\ writeQueue' = Append(writeQueue, timers[i])
    /\ timers' = RemoveAt(timers, i)
    /\ NoPacket
    /\ out' = <<>>
    /\ UNCHANGED <<nextMessageCounter, sendQueue, commands, promise, consumed, portOpen>>
    /\ UNCHANGED notClient

\* port.write calls back without error: sendPacket resolves, response.resolve(packet)
\* (a closed port confirms no write: it fails, or waits for the port to reopen)
writeDone ==
    /\ Idle
    /\ portOpen
    /\ writeQueue # <<>>
    /\ LET w == Head(writeQueue) IN
        /\ promise' = IF w.kind = "command"
                      THEN [promise EXCEPT ![w.id] = "resolved"] ELSE promise
        /\ out' = <<Ev("write", "", 0, w.packet)>> \o
                  (IF w.kind = "command" THEN <<Ev("resolve", "", w.id, w.packet)>>
                   ELSE IF w.kind = "scan" THEN <<Ev("init", "", 0, w.packet)>>
                   ELSE <<>>)
    /\ writeQueue' = Tail(writeQueue)
    /\ NoPacket
    /\ UNCHANGED <<nextMessageCounter, sendQueue, commands, timers, consumed, portOpen>>
    /\ UNCHANGED notClient

\* mutant of writeFailed: the command of a failed write goes back to the queue
writeFailed_requeue ==
    /\ Idle
    /\ writeQueue # <<>>
    /\ LET w == Head(writeQueue) IN
        /\ promise' = IF w.kind = "command"
                      THEN [promise EXCEPT ![w.id] = "rejected"] ELSE promise
        /\ out' = IF w.kind = "command" THEN <<Ev("reject", "TX error", w.id, w.packet)>>
                  ELSE <<Ev("unhandledRejection", w.kind, 0, w.packet)>>
        /\ sendQueue' = IF w.kind = "command"
                        THEN <<[id |-> w.id, payload |-> commands[w.id]]>> \o sendQueue
                        ELSE sendQueue
    /\ writeQueue' = Tail(writeQueue)
    /\ NoPacket
    /\ UNCHANGED <<nextMessageCounter, commands, timers, consumed, portOpen>>
    /\ UNCHANGED notClient

\* port.write calls back with an error: sendPacket rejects, response.reject(...)
writeFailed ==
    /\ Idle
    /\ writeQueue # <<>>
    /\ LET w == Head(writeQueue) IN
        /\ promise' = IF w.kind = "command"
                      THEN [promise EXCEPT ![w.id] = "rejected"] ELSE promise
        /\ out' = IF w.kind = "command" THEN <<Ev("reject", "TX error", w.id, w.packet)>>
                  ELSE <<Ev("unhandledRejection", w.kind, 0, w.packet)>>
    /\ writeQueue' = Tail(writeQueue)
    /\ NoPacket
    /\ UNCHANGED <<nextMessageCounter, sendQueue, commands, timers, consumed, portOpen>>
    /\ UNCHANGED notClient

\* the handler has returned and its events have been delivered
endOfTurn ==
    /\ ~Idle
    /\ NoPacket
    /\ out' = <<>>
    /\ UNCHANGED <<nextMessageCounter, sendQueue, commands, promise, timers,
                   writeQueue, consumed, portOpen>>
    /\ UNCHANGED notClient

PushStep == \E c \in InCommands : pushCommand(c[1], c[2])
PacketStep == \E packet \in InPackets, late \in BOOLEAN : onNewPacket(packet, late)
TimerStep == \E i \in 1..MaxInFlight : timerFires(i)

Next == PushStep \/ PacketStep \/ TimerStep \/ writeDone \/ writeFailed \/ endOfTurn

Spec == Init /\ [][Next]_vars

\* close(): port.close() when the port is open; the port then emits "close"
\* and onClose re-emits it. Nothing else is touched.
close ==
    /\ Idle
    /\ portOpen
    /\ portOpen' = FALSE
    /\ NoPacket
    /\ out' = <<Ev("close", "", 0, <<>>)>>
    /\ UNCHANGED <<nextMessageCounter, sendQueue, commands, promise, timers,
                   writeQueue, consumed>>
    /\ UNCHANGED notClient

\* the port (a public field) is opened again: onOpen re-emits "open"
onOpen ==
    /\ Idle
    /\ ~portOpen
    /\ portOpen' = TRUE
    /\ NoPacket
    /\ out' = <<Ev("open", "", 0, <<>>)>>
    /\ UNCHANGED <<nextMessageCounter, sendQueue, commands, promise, timers,
                   writeQueue, consumed>>
    /\ UNCHANGED notClient

\* the engine with the port being closed and reopened
NextClose == Next \/ close \/ onOpen

SpecClose == Init /\ [][NextClose]_vars

\* what the scheduling of the code guarantees: a handler returns, a timer set
\* by sendPacket expires and a write handed to the port is called back, with
\* or without an error, however many packets arrive meanwhile (strong
\* fairness: these steps wait for the running handler to return). Nothing
\* makes the drive send a packet or the caller close or reopen the port.
SpecCloseFair ==
    /\ SpecClose
    /\ WF_vars(endOfTurn)
    /\ SF_vars(TimerStep)
    /\ SF_vars(writeDone \/ writeFailed)

\* ------------------------------------------------- door state machine steps
\* The door talks to an HCPClient: it listens to its "data" events and calls
\* its pushCommand, whose promise the client resolves or rejects later.
DoorIdle == doorCall = NoCall
DoorEv(type, value) == [type |-> type, value |-> value]
\* a handler run: the pushCommand calls it made, what became of the promise it
\* returned ("then" and "rejected": the promise of an earlier call settles now)
\* and what it logged
Call(op, arg, pushed, result, log) ==
    [op |-> op, arg |-> arg, pushed |-> pushed, result |-> result, log |-> log]
Request(flags, emergencyStop) == [flags |-> flags, emergencyStop |-> emergencyStop]

\* status bytes the client hands over: unknown (0x00), closed, opened,
\* closed with the light on, error active, opening, closing, venting; two of
\* them also with another byte 1
DoorStatuses == { <<0, 2>>, <<1, 2>>, <<2, 2>>, <<9, 2>>, <<16, 2>>, <<64, 2>>,
                  <<96, 2>>, <<128, 2>>, <<1, 255>>, <<16, 255>> }
TargetDoorStates == {TargetDoorState_OPEN, TargetDoorState_CLOSED, TargetDoorState_VENTING}

\* client 'data' callback, for each broadcast status update
onBroadcast(status) ==
    LET newState == broadcastToCurrentState(status)
        doorChanged == currentState # <<newState.door>>
        lightChanged == lightState # <<newState.light>>
    IN
    /\ DoorIdle
    /\ doorCall' = Call("onBroadcast", status, <<>>, "", "")
    /\ IF ~broadcastChanged(status, broadcastStatus)
       THEN /\ doorOut' = <<>>
            /\ UNCHANGED <<broadcastStatus, currentState, lightState>>
       ELSE /\ broadcastStatus' = status
            /\ IF newState.err # NoError
               THEN /\ doorOut' = <<DoorEv("error", newState.err)>>
                    /\ UNCHANGED <<currentState, lightState>>
               ELSE /\ currentState' = <<newState.door>>
                    /\ lightState' = <<newState.light>>
                    /\ doorOut' =
                         (IF doorChanged THEN <<DoorEv("update_door", newState.door)>>
                          ELSE <<>>) \o
                         (IF lightChanged THEN <<DoorEv("update_light", newState.light)>>
                          ELSE <<>>)
    /\ doorHistory' = [doorHistory EXCEPT !.byte0 = <<status[1]>>, !.pushedFor = FALSE]
    /\ UNCHANGED <<targetState, doorPromises>>
    /\ UNCHANGED notDoor

\* mutant of sameCurrent: the current state is never taken for the target
sameCurrent_never(current, newState) == FALSE

\* this.currentState === newState: the two enums compared by their numbers
sameCurrent(current, newState) == current = <<newState>>

\* mutant of targetOnPush: the target is recorded when the command is pushed
targetOnPush_atOnce(target, newState) == <<newState>>

\* the third branch of setTargetState assigns nothing before the promise of
\* pushCommand resolves
targetOnPush(target, newState) == target

setTargetState(newState) ==
    /\ DoorIdle
    /\ IF targetState = <<newState>>
       THEN /\ doorCall' = Call("setTargetState", newState, <<>>, "resolved",
                                  "Target state already")
            /\ UNCHANGED <<targetState, doorPromises>>
       ELSE IF sameCurrent(currentState, newState)
       THEN /\ targetState' = <<newState>>
            /\ doorCall' = Call("setTargetState", newState, <<>>, "resolved",
                                  "Current state already")
            /\ UNCHANGED doorPromises
       ELSE LET request == Request(targetStateToRequest(newState), FALSE) IN
            /\ Len(doorPromises) < MaxPending
            /\ doorPromises' = Append(doorPromises,
                                      [op |-> "setTargetState", arg |-> newState])
            /\ targetState' = targetOnPush(targetState, newState)
            /\ doorCall' = Call("setTargetState", newState, <<request>>, "pending", "")
    /\ doorOut' = <<>>
    /\ doorHistory' =
         [doorHistory EXCEPT !.lastSet = <<newState>>,
                             !.pushedFor = \/ doorHistory.lastSet = <<newState>> /\ @
                                           \/ doorCall'.pushed # <<>>]
    /\ UNCHANGED <<currentState, lightState, broadcastStatus>>
    /\ UNCHANGED notDoor

\* mutant of lightRequest: the light is switched with an emergency stop
lightRequest_stop == Request(<<FLAG_TOGGLE_LIGHT>>, TRUE)

\* pushCommand([STATUS_RESPONSE_BYTE0_BITFIELD.TOGGLE_LIGHT], false)
lightRequest == Request(<<FLAG_TOGGLE_LIGHT>>, FALSE)

setLightOnState(newState) ==
    /\ DoorIdle
    /\ IF lightState = <<newState>>
       THEN /\ doorCall' = Call("setLightOnState", newState, <<>>, "resolved",
                                  "Light On state already")
            /\ UNCHANGED doorPromises
       ELSE /\ Len(doorPromises) < MaxPending
            /\ doorPromises' = Append(doorPromises,
                                      [op |-> "setLightOnState", arg |-> newState])
            /\ doorCall' = Call("setLightOnState", newState, <<lightRequest>>, "pending", "")
    /\ doorOut' = <<>>
    /\ UNCHANGED <<currentState, targetState, lightState, broadcastStatus, doorHistory>>
    /\ UNCHANGED notDoor

\* the client resolves the promise of a pushCommand call: the then() of the
\* call that made it runs, and the promise that call returned resolves
commandResolved(i) ==
    /\ DoorIdle
    /\ i \in 1..Len(doorPromises)
    /\ LET p == doorPromises[i] IN
        /\ targetState' = IF p.op = "setTargetState" THEN <<p.arg>> ELSE targetState
        /\ doorCall' = Call(p.op, p.arg, <<>>, "then",
                             IF p.op = "setTargetState" THEN "Target state set to" ELSE "")
    /\ doorPromises' = RemoveAt(doorPromises, i)
    /\ doorOut' = <<>>
    /\ UNCHANGED <<currentState, lightState, broadcastStatus, doorHistory>>
    /\ UNCHANGED notDoor

\* the client rejects the promise of a pushCommand call: no then() runs and
\* the promise that call returned rejects
commandRejected(i) ==
    /\ DoorIdle
    /\ i \in 1..Len(doorPromises)
    /\ doorCall' = Call(doorPromises[i].op, doorPromises[i].arg, <<>>, "rejected", "")
    /\ doorPromises' = RemoveAt(doorPromises, i)
    /\ doorOut' = <<>>
    /\ UNCHANGED <<currentState, targetState, lightState, broadcastStatus, doorHistory>>
    /\ UNCHANGED notDoor

\* the door handler has returned and its events have been delivered
doorEndOfTurn ==
    /\ ~DoorIdle
    /\ doorCall' = NoCall
    /\ doorOut' = <<>>
    /\ UNCHANGED <<currentState, targetState, lightState, broadcastStatus, doorPromises,
                   doorHistory>>
    /\ UNCHANGED notDoor

BroadcastStep == \E status \in DoorStatuses : onBroadcast(status)
TargetStep == \E newState \in TargetDoorStates : setTargetState(newState)
LightStep == \E newState \in BOOLEAN : setLightOnState(newState)
ResolveStep == \E i \in 1..MaxPending : commandResolved(i)
RejectStep == \E i \in 1..MaxPending : commandRejected(i)

DoorNext ==
    BroadcastStep \/ TargetStep \/ LightStep \/ ResolveStep \/ RejectStep \/ doorEndOfTurn

DoorSpec == Init /\ [][DoorNext]_vars

\* the door over a client that settles the promises of pushCommand in the
\* order of the calls and rejects none: the serial client while its port
\* stays open and its writes succeed
DoorFifoNext ==
    BroadcastStep \/ TargetStep \/ LightStep \/ commandResolved(1) \/ doorEndOfTurn

DoorFifoSpec == Init /\ [][DoorFifoNext]_vars

\* getters: the error thrown while the cell is null, else the value
getCurrentState ==
    IF currentState = Unset THEN [err |-> "Current state cannot be retrieved", value |-> Unset]
    ELSE [err |-> NoError, value |-> currentState]
getTargetState ==
    IF targetState = Unset THEN [err |-> "Target state is not set", value |-> Unset]
    ELSE [err |-> NoError, value |-> targetState]
getLightOnState ==
    IF lightState = Unset THEN [err |-> "Light state is not set", value |-> Unset]
    ELSE [err |-> NoError, value |-> lightState]

\* ------------------------------------------------ static functions, called
FnCall(fn, args) == [fn |-> fn, args |-> args]

\* a set of flags as the array handed to createSlaveStatusPayload
FlagArray(S) ==
    LET f[i \in 0..4] == IF i = 4 THEN <<>>
                         ELSE (IF i \in S THEN <<i>> ELSE <<>>) \o f[i + 1]
    IN  f[0]
\* every subset of the four flags, and arrays with a flag twice or out of order
FlagArrays == { FlagArray(S) : S \in SUBSET {FLAG_OPEN, FLAG_CLOSE, FLAG_TOGGLE_LIGHT, FLAG_VENTING} }
                  \cup { <<FLAG_OPEN, FLAG_OPEN>>, <<FLAG_VENTING, FLAG_OPEN>>,
                         <<FLAG_TOGGLE_LIGHT, FLAG_TOGGLE_LIGHT, FLAG_CLOSE>> }
\* payloads of 0..MaxDataLen bytes, two contents for each length
DataOf(n, k) == [i \in 1..n |-> IF k = 0 THEN (i * 37) % 256 ELSE 255 - i]
InData == { DataOf(n, k) : n \in 0..MaxDataLen, k \in {0, 1} }
InAddresses == {0, 1, 40, 127, 128, 255, 256, 300}
InCounterNibbles == 0..16
\* crc omitted (-1), a crc that is wrong for these payloads, one above 0xff
InCrcs == {-1, 0, 257}
\* a chunk of n bytes, 0x00 at the places in zeros, no 0x00 elsewhere
ChunkOf(n, zeros) == [i \in 1..n |-> IF i \in zeros THEN 0 ELSE (i * 37) % 256]
\* chunks up to and beyond the longest packet; a 0x00 leads the chunk, or
\* leads what the clamp keeps of 19 and of 20 bytes
InChunks ==
    { ChunkOf(n, zeros) : n \in {0, 1, 5, MAX_PACKET_LENGTH, MAX_PACKET_LENGTH + 1,
                                 MAX_PACKET_LENGTH + 2},
                          zeros \in SUBSET {1, 2, 3} }
InFilterOptions == [filterMaxLength : BOOLEAN, filterBreaks : BOOLEAN]

FnInputs ==
    { FnCall("broadcastToCurrentState", <<b0, b1>>) : b0 \in 0..255, b1 \in {0, 2, 255} }
    \cup { FnCall("createSlaveStatusPayload", <<flags, stop>>) :
              flags \in FlagArrays, stop \in BOOLEAN }
    \cup { FnCall("fromData", <<a, c, d, x>>) :
              a \in InAddresses, c \in InCounterNibbles, d \in InData, x \in InCrcs }
    \cup { FnCall("filter", <<o, c>>) : o \in InFilterOptions, c \in InChunks }

FnInit ==
    /\ Constructed
    /\ NoParserInput
    /\ fnIn \in FnInputs
    /\ fnOut = NotRun

callBroadcastToCurrentState ==
    /\ fnIn.fn = "broadcastToCurrentState" /\ fnOut = NotRun
    /\ LET r == broadcastToCurrentState(fnIn.args) IN
         fnOut' = IF r.err # NoError THEN Thrown(r.err)
                  ELSE Returned([door |-> r.door, light |-> r.light])
    /\ UNCHANGED <<fnIn, clientVars, doorVars, parserVars>>

callCreateSlaveStatusPayload ==
    /\ fnIn.fn = "createSlaveStatusPayload" /\ fnOut = NotRun
    /\ fnOut' = Returned(createSlaveStatusPayload(fnIn.args[1], fnIn.args[2]))
    /\ UNCHANGED <<fnIn, clientVars, doorVars, parserVars>>

callFromData ==
    /\ fnIn.fn = "fromData" /\ fnOut = NotRun
    /\ fnOut' = fromDataOrThrow(fnIn.args[1], fnIn.args[2], fnIn.args[3], fnIn.args[4])
    /\ UNCHANGED <<fnIn, clientVars, doorVars, parserVars>>

callFilter ==
    /\ fnIn.fn = "filter" /\ fnOut = NotRun
    /\ fnOut' = Returned(filterBreaks(fnIn.args[1], fnIn.args[2]))
    /\ UNCHANGED <<fnIn, clientVars, doorVars, parserVars>>

FnNext ==
    \/ callBroadcastToCurrentState
    \/ callCreateSlaveStatusPayload
    \/ callFromData
    \/ callFilter

FnSpec == FnInit /\ [][FnNext]_vars

\* ----------------------------------------------------- stream parser steps
RECURSIVE Flatten(_)
Flatten(packets) == IF packets = <<>> THEN <<>> ELSE Head(packets) \o Flatten(Tail(packets))

Repeat(byte, n) == [i \in 1..n |-> byte]

\* frames seen on the bus: two status responses, a status request, a scan
FrameA == fromData(MASTER, 15, <<41, 0, 16>>)
FrameB == fromData(MASTER, 3, <<41, 0, 16>>)
FrameC == fromData(UAP1_ADDR, 1, <<32>>)
FrameD == fromData(UAP1_ADDR, 2, <<1, 128>>)
\* noise: a cut packet, the 14 bytes of the salvage test, a line held high
Garbage4 == <<222, 173, 190, 239>>
Garbage14 == <<51, 34, 17, 0, 255, 238, 255, 238, 0, 17, 255, 238, 255, 238>>
GarbageHigh == Repeat(255, MAX_PACKET_LENGTH + 1)
\* ten bytes of a line held high, then a frame of the greatest length whose
\* ninth byte reads as the length byte of a packet without payload
Garbage10 == Repeat(255, 10)
FrameLong == fromData(MASTER, 2, [i \in 1..(MAX_PACKET_LENGTH - PACKET_OVERHEAD) |->
                                     IF i = 7 THEN 0 ELSE 255])
\* a frame with two bytes of a line held high between its halves: with the
\* frames after it, 3 bytes and then 2 more than the longest packet
FrameACut == SubSeq(FrameA, 1, 3) \o <<255, 255>> \o SubSeq(FrameA, 4, Len(FrameA))
\* three bytes that read as a packet without payload: address, length byte
\* with length nibble 0, and the CRC-8 of the two
ShortCandidate == <<BROADCAST, 16, computeCRC8(<<BROADCAST, 16>>)>>

Stream(garbage, frames) == [garbage |-> garbage, frames |-> frames]
Streams ==
    { Stream(<<>>, <<FrameA, FrameB>>),
      Stream(<<>>, <<FrameC, FrameA, FrameD, FrameB, FrameC>>),
      Stream(Garbage4, <<FrameA>>),
      Stream(Garbage14, <<FrameA, FrameB>>),
      Stream(GarbageHigh, <<FrameA>>),
      Stream(ShortCandidate, <<FrameA>>),
      Stream(Garbage10, <<FrameLong>>),
      Stream(FrameACut, <<FrameB, FrameC, FrameD>>),
      Stream(GarbageHigh, <<FrameA, FrameB, FrameC, FrameD>>) }
BytesOf(stream) == stream.garbage \o Flatten(stream.frames)

ParserClasses == {"PacketFilter", "SimpleHCPPacketParser", "BatchHCPPacketParser"}
ParserOptions ==
    [parserClass : ParserClasses, packetTimeout : {-1, 50}, filterMaxLength : BOOLEAN]
\* sizes of the chunks a read of the port hands over, besides all that is left
ChunkSizes == {1, 3, MAX_PACKET_LENGTH + 2}

ParserInit ==
    /\ Constructed
    /\ fnIn = <<>> /\ fnOut = NotRun
    /\ \E opts \in ParserOptions, stream \in Streams :
          \* PacketFilter pushes its whole buffer at every chunk: a short stream
          /\ opts.parserClass = "PacketFilter" => stream = Stream(Garbage4, <<FrameA>>)
          \* the stream that overfills the buffer of the batch parser is
          \* written to that parser, without a timer
          /\ Len(BytesOf(stream)) > BATCH_BUFFER_LENGTH =>
                opts.parserClass = "BatchHCPPacketParser" /\ opts.packetTimeout < 0
          /\ ParserConstructed(opts, stream, BytesOf(stream))

\* Writable.write(chunk): _transform of the class, with _filter setting the
\* timer; a call that threw never calls back, what is written later waits
write(n) ==
    /\ parser.thrown = ""
    /\ n >= 1 /\ n <= Len(wire)
    /\ LET chunk == SubSeq(wire, 1, n)
           r == transform(parser, options, chunk)
           f == transform(fresh, options, chunk)
       IN  /\ parser' = r.parser
           /\ pushes' = pushes \o r.pushed
           /\ fresh' = f.parser
           /\ freshPushes' = freshPushes \o f.pushed
           /\ wire' = SubSeq(wire, n + 1, Len(wire))
           /\ timer' = IF options.packetTimeout > 0 THEN TRUE ELSE timer
           /\ history' = [history EXCEPT
                             !.fed = @ + n,
                             !.cut = @ \/ filter(options, chunk) # chunk,
                             !.batchCall =
                                 IF options.parserClass = "BatchHCPPacketParser"
                                 THEN BatchCall(filter(options, chunk), r)
                                 ELSE NoBatchCall]
    /\ UNCHANGED <<options, clientVars, doorVars, fnVars>>

\* the timer of _filter fires: _resetBuffer; an error thrown out of write is
\* not caught by the pipe and ends the run, no timer fires after it
packetTimeout ==
    /\ parser.thrown = ""
    /\ timer
    /\ history.fired < MaxFired
    /\ parser' = resetBuffer(parser, options.parserClass)
    /\ timer' = FALSE
    /\ fresh' = Construct(options.parserClass)
    /\ freshPushes' = <<>>
    /\ history' = [history EXCEPT !.fired = @ + 1, !.pushedBefore = Len(pushes)]
    /\ UNCHANGED <<options, pushes, wire, clientVars, doorVars, fnVars>>

WriteStep == \E n \in ChunkSizes \cup {Len(wire)} : write(n)

ParserNext == WriteStep \/ packetTimeout

ParserSpec == ParserInit /\ [][ParserNext]_vars

\* ------------------------------------------------------------ properties
Processed == lastPacket # <<>>
K == counterNibble(lastPacket)
Raised == Len(out) = 1 /\ out[1].type = "error"
HasError(kind) == out = <<Ev("error", kind, 0, <<>>)>>
InFlight == timers \o writeQueue
StatusRequests == [c \in 0..15 |-> fromData(SLAVE, c, <<SLAVE_STATUS_REQUEST>>)]
StatusRequest(c) == StatusRequests[c]
\* a status request with counter c arriving now would be answered
Answered(c) ==
    LET r == processMessage(StatusRequest(c), nextMessageCounter, sendQueue)
    IN  r.err = NoError /\ r.response # NoResponse

\* C1: commands are consumed in the order they were pushed: the ids taken off
\* the queue are 1, 2, ... in that order, the queue holds the rest in push
\* order, and a status request that finds the queue non-empty is answered with
\* the payload of the oldest command still queued (the default answer is given
\* only when the queue is empty).
Thm_C1_FifoOrder ==
    /\ consumed = [i \in 1..Len(consumed) |-> i]
    /\ Len(consumed) + Len(sendQueue) = Len(commands)
    /\ \A i \in 1..Len(sendQueue) :
          /\ sendQueue[i].id = Len(consumed) + i
          /\ sendQueue[i].payload = commands[Len(consumed) + i]
    /\ (Processed /\ response.kind = "command") =>
          /\ response.id = Len(consumed)
          /\ response.payload = commands[response.id]
    /\ (Processed /\ response.kind = "default") => sendQueue = <<>>

\* a status request found two different commands queued and took the first
Wit_C1_TwoQueued ==
    /\ Processed /\ response.kind = "command" /\ response.id = 1
    /\ Len(sendQueue) = 1
    /\ commands[1] # commands[2]

\* C2: a step shortens the queue by at most one entry; it does so exactly when
\* a valid status request with the expected counter finds the queue non-empty,
\* and then it is the head that answers; no command id is consumed twice.
Thm_C2_AtMostOnce ==
    [][ /\ Len(sendQueue') >= Len(sendQueue) - 1
        /\ Len(sendQueue') = Len(sendQueue) - 1 =>
              /\ lastPacket' = StatusRequest(nextMessageCounter)
              /\ response'.kind = "command"
              /\ response'.id = Head(sendQueue).id
        /\ (lastPacket' = StatusRequest(nextMessageCounter) /\ sendQueue # <<>>) =>
              Len(sendQueue') = Len(sendQueue) - 1
        /\ \A i, j \in 1..Len(consumed') : consumed'[i] = consumed'[j] => i = j
      ]_vars

\* two commands have been consumed, by two status requests
Wit_C2_TwoConsumed ==
    Processed /\ response.kind = "command" /\ Len(consumed) = 2

\* C3: the promise of pushCommand goes from pending to resolved only in the
\* step in which the port confirms the write of the response carrying that
\* command; it is resolved with the packet written, which is addressed to the
\* master, has the counter following the request's and the command's payload;
\* the command has left the queue by then.
Thm_C3_ResolvedAfterWrite ==
    [][ \A id \in 1..Len(promise) :
          (promise[id] = "pending" /\ promise'[id] = "resolved") =>
              /\ writeQueue # <<>>
              /\ Head(writeQueue).kind = "command"
              /\ Head(writeQueue).id = id
              /\ out' = << Ev("write", "", 0, Head(writeQueue).packet),
                           Ev("resolve", "", id, Head(writeQueue).packet) >>
              /\ Head(writeQueue).packet =
                    fromData(MASTER, (Head(writeQueue).request + 1) % 16, commands[id])
              /\ \E i \in 1..Len(consumed) : consumed[i] = id
              /\ \A i \in 1..Len(sendQueue) : sendQueue[i].id # id
      ]_vars

\* the promise of an OPEN command has just been resolved with the packet written
Wit_C3_Resolved ==
    /\ Len(out) = 2 /\ out[1].type = "write" /\ out[2].type = "resolve"
    /\ promise[out[2].id] = "resolved"
    /\ payload(out[2].bytes) = createSlaveStatusPayload(<<FLAG_OPEN>>, FALSE)

\* C4: after a broadcast packet has been processed nextMessageCounter is the
\* packet's counter plus one (mod 16) and no bad-counter error was raised,
\* whatever the counter expected before.
Thm_C4_BroadcastSync ==
    (Processed /\ address(lastPacket) = BROADCAST) =>
        /\ nextMessageCounter = (K + 1) % 16
        /\ ~HasError("BadCounter")

\* a broadcast whose counter was not the expected one has been processed
Wit_C4_Resync ==
    /\ Processed /\ address(lastPacket) = BROADCAST
    /\ K # expected
    /\ out = <<Ev("data", "", 0, payload(lastPacket))>>

Cex_C6_CounterIsResponseCounter ==
    (Processed /\ address(lastPacket) = SLAVE /\ K = expected /\ response # NoResponse) =>
        /\ response.counter = (K + 1) % 16
        /\ nextMessageCounter = response.counter
        /\ Answered((K + 1) % 16)

\* C7: a slave packet whose counter is not the expected one raises the
\* bad-counter error, produces no response and leaves nextMessageCounter, the
\* command queue and the responses in flight as they were.
Thm_C7_BadCounter ==
    [][ (/\ lastPacket' # <<>>
         /\ address(lastPacket') = SLAVE
         /\ counterNibble(lastPacket') # nextMessageCounter) =>
            /\ out' = <<Ev("error", "BadCounter", 0, <<>>)>>
            /\ response' = NoResponse
            /\ nextMessageCounter' = nextMessageCounter
            /\ sendQueue' = sendQueue
            /\ timers' = timers
            /\ writeQueue' = writeQueue
      ]_vars

\* a valid status request with a wrong counter was rejected, a command waiting
Wit_C7_Rejected ==
    /\ Processed /\ K # expected
    /\ lastPacket = StatusRequest(K)
    /\ sendQueue # <<>>

\* C8 as claimed: a packet for another address never raises an error; with the
\* expected counter the counter advances by one, otherwise nothing changes.
Cex_C8_OtherNeverRaises ==
    (Processed /\ address(lastPacket) \notin {BROADCAST, SLAVE}) =>
        /\ out = <<>>
        /\ response = NoResponse
        /\ nextMessageCounter = IF K = expected THEN (K + 1) % 16 ELSE expected

\* C8 amended: a packet for another address never produces a response; with
\* the expected counter the counter advances by one and nothing is raised,
\* with another counter the bad-counter error is raised and the counter stays.
Thm_C8_OtherAddress ==
    (Processed /\ address(lastPacket) \notin {BROADCAST, SLAVE}) =>
        /\ response = NoResponse
        /\ IF K = expected
           THEN nextMessageCounter = (K + 1) % 16 /\ out = <<>>
           ELSE nextMessageCounter = expected /\ HasError("BadCounter")

\* a packet for another address with a counter that was not expected
Wit_C8_OtherMismatch ==
    Processed /\ address(lastPacket) = OTHER_ADDR /\ K # expected

\* C9 as claimed: after a packet with counter k has raised an error, a valid
\* status request with counter k+1 arriving next is answered.
Cex_C9_NextAnswered ==
    (Processed /\ Raised) => Answered((K + 1) % 16)

\* C9 amended: after an error other than a counter violation the status
\* request with counter k+1 is answered; after a counter violation the counter
\* is unchanged and a status request is answered exactly when it bears the
\* counter that was expected before.
Thm_C9_AfterError ==
    (Processed /\ Raised) =>
        IF out[1].kind = "BadCounter"
        THEN /\ nextMessageCounter = expected
             /\ \A c \in 0..15 : Answered(c) <=> c = expected
        ELSE Answered((K + 1) % 16)

\* an unknown slave command has raised an error while a command was queued
Wit_C9_UnknownCommand ==
    Processed /\ HasError("UnknownSlaveCommand") /\ sendQueue # <<>>

\* C10: when a packet is processed, the response to every earlier packet has
\* been written: nothing is in flight but the response to the packet itself.
Cex_C10_WrittenBeforeNext ==
    Processed =>
        Len(timers) + Len(writeQueue) <= (IF response = NoResponse THEN 0 ELSE 1)

\* ids of the commands still waiting in sendQueue
Queued(queue) == { queue[i].id : i \in 1..Len(queue) }

\* C11: the step that closes the port rejects the promise of every command
\* that is in sendQueue at that moment, with a transport error.
Cex_C11_CloseRejectsQueued ==
    [][ (portOpen /\ ~portOpen') =>
            \A id \in Queued(sendQueue) :
                /\ promise'[id] = "rejected"
                /\ \E i \in 1..Len(out') :
                      out'[i].type = "reject" /\ out'[i].id = id
      ]_vars

\* C12: while the port is closed pushCommand fails fast: the promise it
\* returns is rejected at once and the command is not queued.
Cex_C12_FailFastWhileClosed ==
    [][ (~portOpen /\ Len(commands') = Len(commands) + 1) =>
            /\ promise'[Len(commands')] = "rejected"
            /\ sendQueue' = sendQueue
      ]_vars

\* the promise of pushCommand number id has been resolved or rejected
Settled(id) == id <= Len(promise) /\ promise[id] # "pending"

\* C13: every promise returned by pushCommand is eventually resolved or
\* rejected, in every execution: also when the port is closed and when the
\* drive sends no further status request.
Cex_C13_EventuallySettled ==
    \A id \in 1..MaxPush : (id <= Len(promise)) ~> Settled(id)

\* C14: the promise of a command goes from pending to rejected only in the
\* step in which the port write of the response carrying it fails; it is
\* rejected with the transport error; the step puts nothing back into the
\* queue and starts no new write; and a command whose promise is rejected is
\* never again in the queue, behind a timer or handed to the port.
Thm_C14_WriteFailureRejects ==
    [][ /\ \A id \in 1..Len(promise) :
            (promise[id] = "pending" /\ promise'[id] = "rejected") =>
                /\ writeQueue # <<>>
                /\ Head(writeQueue).kind = "command"
                /\ Head(writeQueue).id = id
                /\ out' = <<Ev("reject", "TX error", id, Head(writeQueue).packet)>>
                /\ sendQueue' = sendQueue
                /\ timers' = timers
                /\ writeQueue' = Tail(writeQueue)
        /\ \A id \in 1..Len(promise') :
            promise'[id] = "rejected" =>
                /\ id \notin Queued(sendQueue')
                /\ \A i \in 1..Len(timers') :
                      ~(timers'[i].kind = "command" /\ timers'[i].id = id)
                /\ \A i \in 1..Len(writeQueue') :
                      ~(writeQueue'[i].kind = "command" /\ writeQueue'[i].id = id)
      ]_vars

\* the write of a response carrying a command failed, a later status request
\* was answered, and it was not answered with that command again
Wit_C14_RejectedThenPolled ==
    /\ Len(promise) >= 1 /\ promise[1] = "rejected"
    /\ Processed /\ lastPacket = StatusRequest(K) /\ response.kind = "default"

\* the door cells a broadcast or a set-call may write
Cells == <<currentState, targetState, lightState>>
Delivered == doorCall.op = "onBroadcast"
Emitted(type) == \E i \in 1..Len(doorOut) : doorOut[i].type = type

\* C15: after a broadcast has been delivered the byte 0 kept is its byte 0;
\* a broadcast whose byte 0 equals the byte 0 kept (that of the broadcast
\* delivered before) emits nothing and changes nothing; update_door is emitted
\* only with a decoded door state that differs from the stored one, and
\* update_light only with a decoded light that differs from the stored one.
Thm_C15_BroadcastIdempotent ==
    [][ doorCall'.op = "onBroadcast" =>
          LET status == doorCall'.arg
              decoded == broadcastToCurrentState(status)
          IN
          /\ broadcastStatus'[1] = status[1]
          /\ status[1] = broadcastStatus[1] =>
                /\ doorOut' = <<>>
                /\ Cells' = Cells
                /\ broadcastStatus' = broadcastStatus
                /\ doorPromises' = doorPromises
          /\ \A i \in 1..Len(doorOut') :
                /\ doorOut'[i].type = "update_door" =>
                      /\ decoded.err = NoError
                      /\ doorOut'[i].value = decoded.door
                      /\ currentState # <<decoded.door>>
                      /\ currentState' = <<decoded.door>>
                /\ doorOut'[i].type = "update_light" =>
                      /\ decoded.err = NoError
                      /\ doorOut'[i].value = decoded.light
                      /\ lightState # <<decoded.light>>
                      /\ lightState' = <<decoded.light>>
          /\ (decoded.err = NoError /\ status[1] # broadcastStatus[1]) =>
                /\ (currentState # <<decoded.door>>) =>
                      \E i \in 1..Len(doorOut') : doorOut'[i].type = "update_door"
                /\ (lightState # <<decoded.light>>) =>
                      \E i \in 1..Len(doorOut') : doorOut'[i].type = "update_light"
      ]_vars

\* "error active" was delivered again, with another byte 1: nothing emitted,
\* the status kept is still the first one
Wit_C15_SameByteAgain ==
    /\ Delivered /\ doorCall.arg = <<16, 255>>
    /\ broadcastStatus = <<16, 2>>
    /\ doorOut = <<>>

\* byte 0 has the error bit set, or none of the bits that tell the door state
DecodesToError(status) ==
    \/ extractBitfield(status[1], ERROR_ACTIVE)
    \/ \A i \in {DOOR_MOVING, DOOR_OPENED, DOOR_CLOSED, DOOR_VENTING} :
          ~extractBitfield(status[1], i)
OnlyError(events) == Len(events) = 1 /\ events[1].type = "error"

\* C16 as claimed: every broadcast whose byte 0 decodes to an error emits an
\* error event and leaves the door cells unchanged, with no update event.
Cex_C16_ErrorAlwaysEmitted ==
    [][ (doorCall'.op = "onBroadcast" /\ DecodesToError(doorCall'.arg)) =>
            /\ OnlyError(doorOut')
            /\ Cells' = Cells
      ]_vars

\* C16 amended: a broadcast whose byte 0 decodes to an error leaves the door
\* cells unchanged and emits no update event; it emits the error event, alone,
\* exactly when its byte 0 differs from the byte 0 kept from the broadcasts
\* before (0 before the first one), and nothing otherwise.
Thm_C16_ErrorKeepsState ==
    [][ (doorCall'.op = "onBroadcast" /\ DecodesToError(doorCall'.arg)) =>
            /\ Cells' = Cells
            /\ IF doorCall'.arg[1] # broadcastStatus[1]
               THEN OnlyError(doorOut')
               ELSE doorOut' = <<>>
      ]_vars

\* "error active" arrived while the door was known to be open with a target
\* set: the error is emitted and the cells are kept
Wit_C16_ErrorWhileOpen ==
    /\ Delivered /\ doorOut = <<DoorEv("error", "Error active")>>
    /\ currentState = <<CurrentDoorState_OPEN>>
    /\ targetState # Unset

\* a call of the setter (not the settling of a promise it returned earlier)
Called(call, op) == call.op = op /\ call.result \in {"resolved", "pending"}

\* C17: setTargetState(x) pushes no command and returns a resolved promise
\* when x is the stored target, and then nothing of the door changes, and when
\* x is not the stored target but the current door state has the value of x,
\* and then the target becomes x and nothing else changes.
Thm_C17_NoCommandWhenThere ==
    [][ Called(doorCall', "setTargetState") =>
          LET x == doorCall'.arg IN
          /\ targetState = <<x>> =>
                /\ doorCall'.pushed = <<>>
                /\ doorCall'.result = "resolved"
                /\ Cells' = Cells
                /\ doorPromises' = doorPromises
                /\ broadcastStatus' = broadcastStatus
                /\ doorOut' = <<>>
          /\ (targetState # <<x>> /\ currentState = <<x>>) =>
                /\ doorCall'.pushed = <<>>
                /\ doorCall'.result = "resolved"
                /\ targetState' = <<x>>
                /\ currentState' = currentState
                /\ lightState' = lightState
                /\ doorPromises' = doorPromises
                /\ broadcastStatus' = broadcastStatus
                /\ doorOut' = <<>>
      ]_vars

\* the door is venting (5) and VENTING (5) is asked for: recorded, no command
Wit_C17_AlreadyVenting ==
    /\ doorCall = Call("setTargetState", TargetDoorState_VENTING, <<>>, "resolved",
                       "Current state already")
    /\ currentState = <<CurrentDoorState_VENTING>>
    /\ targetState = <<TargetDoorState_VENTING>>
    /\ doorPromises = <<>>

\* C18: when setTargetState(x) finds x different from the stored target and
\* from the current door state it pushes the command of x and leaves the
\* target as it is; the target becomes x in the step in which the promise of
\* that command resolves, and the step in which it rejects leaves the target
\* as it is.
Thm_C18_TargetOnSuccess ==
    [][ /\ (Called(doorCall', "setTargetState")
            /\ targetState # <<doorCall'.arg>> /\ currentState # <<doorCall'.arg>>) =>
              /\ targetState' = targetState
              /\ doorCall'.result = "pending"
              /\ doorCall'.pushed =
                    <<Request(targetStateToRequest(doorCall'.arg), FALSE)>>
              /\ doorPromises' =
                    Append(doorPromises, [op |-> "setTargetState", arg |-> doorCall'.arg])
        /\ (doorCall'.op = "setTargetState" /\ doorCall'.result = "then") =>
              /\ targetState' = <<doorCall'.arg>>
              /\ \E i \in 1..Len(doorPromises) :
                    /\ doorPromises[i] = [op |-> "setTargetState", arg |-> doorCall'.arg]
                    /\ doorPromises' = RemoveAt(doorPromises, i)
        /\ (doorCall'.op = "setTargetState" /\ doorCall'.result = "rejected") =>
              /\ targetState' = targetState
              /\ \E i \in 1..Len(doorPromises) :
                    /\ doorPromises[i] = [op |-> "setTargetState", arg |-> doorCall'.arg]
                    /\ doorPromises' = RemoveAt(doorPromises, i)
      ]_vars

\* the command for OPEN was rejected: the target is still CLOSED
Wit_C18_RejectedKeepsTarget ==
    /\ doorCall = Call("setTargetState", TargetDoorState_OPEN, <<>>, "rejected", "")
    /\ targetState = <<TargetDoorState_CLOSED>>

\* C19: setLightOnState(b) never writes the stored light state: when b is the
\* stored light it pushes nothing and changes nothing, otherwise it pushes
\* exactly one command, [TOGGLE_LIGHT] without emergency stop; the stored
\* light state changes only in a step that decodes a broadcast.
Thm_C19_LightOnlyFromBroadcast ==
    [][ /\ Called(doorCall', "setLightOnState") =>
              /\ Cells' = Cells
              /\ broadcastStatus' = broadcastStatus
              /\ doorOut' = <<>>
              /\ IF lightState = <<doorCall'.arg>>
                 THEN /\ doorCall'.pushed = <<>>
                      /\ doorCall'.result = "resolved"
                      /\ doorPromises' = doorPromises
                 ELSE /\ doorCall'.pushed = <<Request(<<FLAG_TOGGLE_LIGHT>>, FALSE)>>
                      /\ createSlaveStatusPayload(doorCall'.pushed[1].flags,
                                                  doorCall'.pushed[1].emergencyStop)
                            = <<SLAVE_STATUS_RESPONSE, 4, BYTE1_DEFAULT>>
                      /\ Len(doorPromises') = Len(doorPromises) + 1
        /\ lightState' # lightState =>
              /\ doorCall'.op = "onBroadcast"
              /\ ~DecodesToError(doorCall'.arg)
              /\ lightState' = <<extractBitfield(doorCall'.arg[1], LIGHT_RELAY_ON)>>
      ]_vars

\* the light is off and is asked on: one command pushed, the light still off
Wit_C19_TogglePushed ==
    /\ doorCall.op = "setLightOnState" /\ doorCall.arg = TRUE
    /\ doorCall.pushed = <<Request(<<FLAG_TOGGLE_LIGHT>>, FALSE)>>
    /\ lightState = <<FALSE>>

\* C20: a getter throws exactly while its cell is null; a cell that is set
\* stays set; the current state and the light become set together, in the
\* step that decodes a broadcast, and every broadcast that decodes sets them;
\* the target becomes set in a setTargetState call or when the promise of the
\* command it pushed resolves.
Thm_C20_GettersAndCells ==
    [][ /\ (getCurrentState'.err # NoError) <=> (currentState' = Unset)
        /\ (getTargetState'.err # NoError) <=> (targetState' = Unset)
        /\ (getLightOnState'.err # NoError) <=> (lightState' = Unset)
        /\ getCurrentState'.err = NoError => getCurrentState'.value = currentState'
        /\ getTargetState'.err = NoError => getTargetState'.value = targetState'
        /\ getLightOnState'.err = NoError => getLightOnState'.value = lightState'
        /\ currentState # Unset => currentState' # Unset
        /\ targetState # Unset => targetState' # Unset
        /\ lightState # Unset => lightState' # Unset
        /\ (currentState' = Unset) <=> (lightState' = Unset)
        /\ (currentState = Unset /\ currentState' # Unset) =>
              doorCall'.op = "onBroadcast" /\ ~DecodesToError(doorCall'.arg)
        /\ (doorCall'.op = "onBroadcast" /\ ~DecodesToError(doorCall'.arg)) =>
              currentState' # Unset /\ lightState' # Unset
        /\ (targetState = Unset /\ targetState' # Unset) =>
              /\ doorCall'.op = "setTargetState"
              /\ doorCall'.result \in {"resolved", "then"}
              /\ targetState' = <<doorCall'.arg>>
      ]_vars

\* after an error broadcast and a rejected command every getter still throws;
\* the next broadcast decodes
Wit_C20_StillUnset ==
    /\ doorCall.op = "setTargetState" /\ doorCall.result = "rejected"
    /\ broadcastStatus[1] = 16
    /\ getCurrentState.err # NoError
    /\ getTargetState.err # NoError
    /\ getLightOnState.err # NoError

\* bit i of a byte
Bit(byte, i) == (byte \div (2 ^ i)) % 2 = 1
Ran(fn) == fnIn # <<>> /\ fnIn.fn = fn /\ fnOut # NotRun

\* C21: for every byte 0 the decode follows the priority error_active, then
\* door_moving with the direction bit, then door_opened, door_closed,
\* door_venting, else "Unknown status"; a state returned carries bit 3 as its
\* light; byte 1 has no influence.
Thm_C21_DecodePriority ==
    Ran("broadcastToCurrentState") =>
        LET b == fnIn.args[1]
            state(d) == Returned([door |-> d, light |-> Bit(b, 3)])
        IN
        /\ fnOut =
             IF Bit(b, 4) THEN Thrown("Error active")
             ELSE IF Bit(b, 6) THEN (IF Bit(b, 5) THEN state(CurrentDoorState_CLOSING)
                                     ELSE state(CurrentDoorState_OPENING))
             ELSE IF Bit(b, 1) THEN state(CurrentDoorState_OPEN)
             ELSE IF Bit(b, 0) THEN state(CurrentDoorState_CLOSED)
             ELSE IF Bit(b, 7) THEN state(CurrentDoorState_VENTING)
             ELSE Thrown("Unknown status")
        /\ broadcastToCurrentState(<<b, 0>>) = broadcastToCurrentState(fnIn.args)

\* closed and opened both set, light on: OPEN wins
Wit_C21_OpenedBeforeClosed ==
    /\ Ran("broadcastToCurrentState") /\ fnIn.args = <<11, 255>>
    /\ fnOut = Returned([door |-> CurrentDoorState_OPEN, light |-> TRUE])

\* C22: for every array of flags and every emergencyStop the payload is
\* [0x29, b0, b1], b0 having exactly the bits of the flags given and b1 being
\* 0x10 without and 0x00 with emergency stop.
Thm_C22_StatusPayload ==
    Ran("createSlaveStatusPayload") =>
        LET flags == fnIn.args[1]
            given == { flags[i] : i \in 1..Len(flags) }
            weight(f) == IF f \in given THEN 2 ^ f ELSE 0
        IN  fnOut = Returned(<< 41,
                                weight(0) + weight(1) + weight(2) + weight(3),
                                IF fnIn.args[2] THEN 0 ELSE 16 >>)

\* all four flags with emergency stop
Wit_C22_AllFlagsStop ==
    /\ Ran("createSlaveStatusPayload")
    /\ fnIn.args = << <<FLAG_OPEN, FLAG_CLOSE, FLAG_TOGGLE_LIGHT, FLAG_VENTING>>, TRUE >>
    /\ fnOut = Returned(<<41, 15, 0>>)

\* what the claims C27 say of a packet made from the fields given
WellFormed(packet, addressByte, counter, data) ==
    /\ packet[Len(packet)] = computeCRC8(SubSeq(packet, 1, Len(packet) - 1))
    /\ (packet[2] % 16) + 3 = Len(packet)
    /\ packet[2] \div 16 = counter
    /\ packet[1] = addressByte
    /\ SubSeq(packet, 3, Len(packet) - 1) = data
    /\ fromBuffer(packet, TRUE) = Returned(packet)
\* the fields are in range: address 0..255, counter 0..15, crc omitted
FieldsInRange == fnIn.args[1] <= 255 /\ fnIn.args[2] <= 15 /\ fnIn.args[4] = -1

\* C27 as stated: fromData with the crc omitted succeeds for every address
\* 0..255, counter 0..15 and payload of 0..15 bytes, and the packet is valid.
Cex_C27_EmptyPayloadAccepted ==
    (Ran("fromData") /\ FieldsInRange /\ Len(fnIn.args[3]) <= 15) =>
        /\ fnOut.threw = ""
        /\ WellFormed(fnOut.returned, fnIn.args[1], fnIn.args[2], fnIn.args[3])

\* C27: fromData with the crc omitted succeeds for every address 0..255,
\* counter 0..15 and payload of 1..15 bytes, and the packet is valid (CRC-8 of
\* the preceding bytes last, length nibble + 3 its length, counter nibble and
\* address as given, fromBuffer of its bytes gives the same bytes); an empty
\* payload is rejected as shorter than 4 bytes, and address > 0xff,
\* counter > 0xf, a payload longer than 15 or crc > 0xff are rejected.
Thm_C27_FromDataValid ==
    Ran("fromData") =>
        LET addressByte == fnIn.args[1]
            counter == fnIn.args[2]
            data == fnIn.args[3]
            crcByte == fnIn.args[4]
        IN
        /\ (FieldsInRange /\ Len(data) \in 1..15) =>
              /\ fnOut.threw = ""
              /\ WellFormed(fnOut.returned, addressByte, counter, data)
        /\ (FieldsInRange /\ Len(data) = 0) => fnOut = Thrown("HCPPacket cannot be shorter")
        /\ (addressByte > 255 \/ counter > 15 \/ Len(data) > 15 \/ crcByte > 255) =>
              fnOut.threw # ""

\* the status response of the tests, made from its fields
Wit_C27_StatusResponseMade ==
    /\ Ran("fromData")
    /\ fnIn.args = <<255, 15, DataOf(15, 1), -1>>
    /\ fnOut.threw = "" /\ Len(fnOut.returned) = MAX_PACKET_LENGTH

\* the bytes between the header and the crc of a packet, read off the packet
Body(packet) == [i \in 1..(Len(packet) - 3) |-> packet[i + 2]]
\* the call of onNewPacket made by this step, for a packet to the slave or a broadcast
Arrives(addressByte) == lastPacket' # <<>> /\ lastPacket'[1] = addressByte
Expected == lastPacket'[2] \div 16 = nextMessageCounter
NothingSent == response' = NoResponse /\ timers' = timers /\ writeQueue' = writeQueue
ErrorRaised == Len(out') = 1 /\ out'[1].type = "error"
Sent(bytes) == \E i \in 1..Len(InFlight) : InFlight[i].packet = bytes

\* C23: a status request [0x20] with the expected counter that finds sendQueue
\* empty is answered with [0x29, 0x00, 0x10] and leaves sendQueue empty; a
\* status request whose payload is not one byte long raises an error, is not
\* answered and takes no entry off sendQueue.
Thm_C23_DefaultStatus ==
    [][ (Arrives(SLAVE) /\ lastPacket'[3] = 32) =>
          /\ (Body(lastPacket') = <<32>> /\ Expected /\ sendQueue = <<>>) =>
                /\ response'.payload = <<41, 0, 16>>
                /\ \E i \in 1..Len(timers' \o writeQueue') :
                      (timers' \o writeQueue')[i].packet =
                          fromData(MASTER, (nextMessageCounter + 1) % 16, <<41, 0, 16>>)
                /\ sendQueue' = <<>>
                /\ out' = <<>>
          /\ Len(Body(lastPacket')) # 1 =>
                /\ ErrorRaised
                /\ Expected => out'[1].kind = "BadStatusLen"
                /\ NothingSent
                /\ sendQueue' = sendQueue /\ consumed' = consumed
      ]_vars

\* the default answer is on its way to the port
Wit_C23_DefaultOnItsWay ==
    /\ Processed /\ lastPacket = StatusRequest(expected)
    /\ sendQueue = <<>> /\ consumed = <<>>
    /\ Sent(fromData(MASTER, (expected + 1) % 16, <<41, 0, 16>>))

Thm_C25_UnknownSlaveCommand ==
    [][ (Arrives(SLAVE) /\ lastPacket'[3] \notin {1, 32}) =>
          /\ ErrorRaised
          /\ Expected => out'[1].kind = "UnknownSlaveCommand"
          /\ NothingSent
          /\ sendQueue' = sendQueue /\ consumed' = consumed
      ]_vars

\* an unknown command has been refused while a command waits in sendQueue
Wit_C25_RefusedWhileQueued ==
    /\ Processed /\ address(lastPacket) = SLAVE
    /\ HasError("UnknownSlaveCommand")
    /\ sendQueue # <<>>

\* C26: a broadcast is never answered; when its payload has exactly 2 bytes
\* these are emitted as "data", otherwise the bad-payload-length error is
\* raised and no "data" is emitted.
Thm_C26_BroadcastUnpacked ==
    [][ Arrives(BROADCAST) =>
          /\ NothingSent
          /\ IF Len(lastPacket') = 5
             THEN out' = <<Ev("data", "", 0, <<lastPacket'[3], lastPacket'[4]>>)>>
             ELSE out' = <<Ev("error", "BadPayloadLen", 0, <<>>)>>
      ]_vars

\* a broadcast of three payload bytes has been refused
Wit_C26_BadLength ==
    /\ Processed /\ address(lastPacket) = BROADCAST /\ Len(lastPacket) = 6
    /\ HasError("BadPayloadLen")

\* the frames of a stream that lie wholly within its first n bytes
RECURSIVE FramesWithin(_, _)
FramesWithin(frames, n) ==
    IF frames = <<>> \/ Len(Head(frames)) > n THEN <<>>
    ELSE <<Head(frames)>> \o FramesWithin(Tail(frames), n - Len(Head(frames)))
\* n bytes end with the last byte of a frame
RECURSIVE AtFrameEnd(_, _)
AtFrameEnd(frames, n) ==
    \/ n = 0
    \/ frames # <<>> /\ Len(Head(frames)) <= n
                     /\ AtFrameEnd(Tail(frames), n - Len(Head(frames)))
\* no position of the bytes starts a candidate frame with a good CRC
NoValidCandidate(bytes) ==
    \A i \in 0..(Len(bytes) - 2) :
        LET length == (bytes[i + 2] % 16) + 3 IN
        ~ /\ length >= 4
          /\ i + length <= Len(bytes)
          /\ computeCRC8(SubSeq(bytes, i + 1, i + length - 1)) = bytes[i + length]
Written == history.fed
NoTimeout == history.fired = 0
Is(parserClass) == options.parserClass = parserClass

\* C28 as stated: the batch parser, written garbage without any CRC-valid
\* candidate frame and then valid frames back to back, with no timeout, has
\* pushed exactly these frames, in order, once the stream is written.
Cex_C28_BatchRecovers ==
    ( /\ Is("BatchHCPPacketParser") /\ NoTimeout /\ ~history.cut
      /\ NoValidCandidate(history.stream.garbage)
      /\ wire = <<>> ) =>
        pushes = history.stream.frames

\* C29 as stated: the strict parser, written valid frames back to back in
\* chunks of any size, with no timeout, has pushed every frame written whole,
\* once and in order.
Cex_C29_AnyChunks ==
    (Is("SimpleHCPPacketParser") /\ NoTimeout /\ history.stream.garbage = <<>>) =>
        pushes = FramesWithin(history.stream.frames, Written)

\* C29: the strict parser, written valid frames back to back in chunks of any
\* size, none of them cut by the max-length filter (filterMaxLength off, or no
\* chunk above 18 bytes), with no timeout, has pushed every frame written
\* whole, once and in order, and waits for the first byte of a packet exactly
\* when what was written ends with a frame.
Thm_C29_StrictOnCleanStream ==
    ( /\ Is("SimpleHCPPacketParser") /\ NoTimeout /\ ~history.cut
      /\ history.stream.garbage = <<>> ) =>
        /\ pushes = FramesWithin(history.stream.frames, Written)
        /\ parser.started = ~AtFrameEnd(history.stream.frames, Written)
        /\ parser.thrown = ""

\* a frame has been pushed and the first three bytes of the next one are kept,
\* the rest of it being in a later chunk
Wit_C29_NextFrameBegun ==
    /\ Is("SimpleHCPPacketParser") /\ NoTimeout /\ ~history.cut
    /\ history.stream.garbage = <<>>
    /\ Written = 7 /\ pushes = <<FrameC>>
    /\ parser.started /\ parser.offset = 2

\* a parser and one constructed anew frame what is written next alike
SameFraming(p, q) ==
    \/ p = q
    \/ p.offset = -1 /\ q.offset = -1 /\ [p EXCEPT !.started = q.started] = q

\* C30: when the timer set by the last chunk fires, what the parser has
\* accumulated is dropped: what is written afterwards is framed as by a parser
\* constructed at that moment; while the timer has not fired, chunks
\* accumulate, a frame written in several chunks is pushed when its last byte
\* is written.
Thm_C30_TimeoutDropsState ==
    /\ SameFraming(parser, fresh)
    /\ freshPushes = SubSeq(pushes, history.pushedBefore + 1, Len(pushes))
    /\ ( /\ options.packetTimeout > 0 /\ NoTimeout /\ ~history.cut
         /\ ~Is("PacketFilter") /\ history.stream.garbage = <<>> ) =>
           pushes = FramesWithin(history.stream.frames, Written)

\* the strict parser was written a cut packet; the timer fired, and the frame
\* written after it has been pushed
Wit_C30_FrameAfterTimeout ==
    /\ Is("SimpleHCPPacketParser")
    /\ history.stream = Stream(Garbage4, <<FrameA>>)
    /\ history.fired = 1
    /\ pushes = <<FrameA>>

\* ------------------------------------------------------------------ C31
Filtered(opts, chunk) ==
    /\ fnIn = FnCall("filter", <<opts, chunk>>)
    /\ fnOut.threw = ""
TooLong(chunk) == Len(chunk) > MAX_PACKET_LENGTH

Cex_C32_StrictNeverRaises ==
    Is("SimpleHCPPacketParser") =>
        /\ parser.thrown = ""
        /\ (NoTimeout /\ Written = Len(ShortCandidate)
               /\ history.stream.garbage = ShortCandidate) => ~parser.started

\* ------------------------------------------------------------------ C33
\* C33 as stated: a broadcast with byte 0 = 0x00 handed to the door, the
\* first one after construction or one that follows a broadcast with another
\* byte 0, emits the error "Unknown status".
Cex_C33_UnknownStatusEmitted ==
    [][ ( /\ doorCall'.op = "onBroadcast"
          /\ doorCall'.arg[1] = 0
          /\ doorHistory.byte0 # <<0>> ) =>
            doorOut' = <<DoorEv("error", "Unknown status")>>
      ]_vars

\* ------------------------------------------------------------------ C34
\* C34 as stated: of two setTargetState(x) calls in a row for the same x, with
\* no broadcast between them, at most one pushes a command, also when the
\* command of the first is still pending at the second.
Cex_C34_OneCommandPerTarget ==
    [][ ( /\ Called(doorCall', "setTargetState")
          /\ doorHistory.lastSet = <<doorCall'.arg>>
          /\ doorHistory.pushedFor ) =>
            doorCall'.pushed = <<>>
      ]_vars

\* ------------------------------------------------------------------ C35
\* C35 as stated: whatever the order of setTargetState calls, broadcasts and
\* command resolutions, once no promise of a command is pending the target
\* kept is the one of the last setTargetState call.
Cex_C35_TargetIsLastAsked ==
    (DoorIdle /\ doorPromises = <<>> /\ doorHistory.lastSet # Unset) =>
        targetState = doorHistory.lastSet

\* ------------------------------------------------------------------ C36
\* what a batch parser constructed anew pushes when written the stream at once
OneWrite(stream) ==
    transform(Construct("BatchHCPPacketParser"), DefaultOptions("BatchHCPPacketParser"),
              BytesOf(stream)).pushed

\* C36 as stated: without the max-length filter and with no timeout, the
\* batch parser written a stream in chunks of any sizes has pushed, once all
\* of it is written, the packets it pushes when written the stream at once.
Cex_C36_ChunkingIrrelevant ==
    ( /\ Is("BatchHCPPacketParser") /\ ~options.filterMaxLength /\ NoTimeout
      /\ wire = <<>> ) =>
        pushes = OneWrite(history.stream)

\* ------------------------------------------------------------------ C37
\* the packet is made of bytes that follow each other in the stream
SliceOf(packet, bytes) ==
    \E i \in 0..(Len(bytes) - Len(packet)) : SubSeq(bytes, i + 1, i + Len(packet)) = packet

\* C37 as stated: every packet pushed by the strict or the batch parser is 4
\* to 18 bytes long, 3 more than the low nibble of its second byte, ends with
\* the CRC-8 of the bytes before it, and is made of bytes that follow each
\* other in the stream written to the parser.
Cex_C37_EmittedPackets ==
    ~Is("PacketFilter") =>
        \A k \in 1..Len(pushes) :
            LET packet == pushes[k]
                n == Len(packet)
            IN  /\ n >= PACKET_OVERHEAD + 1 /\ n <= MAX_PACKET_LENGTH
                /\ n = PACKET_OVERHEAD + (packet[2] % 16)
                /\ packet[n] = computeCRC8(SubSeq(packet, 1, n - 1))
                /\ SliceOf(packet, BytesOf(history.stream))

\* ------------------------------------------------------------------ C38
\* a packet has been handed to onNewPacket in this step
Handed(packet) == lastPacket = <<>> /\ packet # <<>>
\* a status request for this slave with the counter the engine expects
ValidStatusRequest(packet, nmc) ==
    /\ address(packet) = SLAVE
    /\ counterNibble(packet) = nmc
    /\ payload(packet) = <<SLAVE_STATUS_REQUEST>>
ErrorIn(events) == \E i \in 1..Len(events) : events[i].type = "error"

\* C38: the queue loses an entry only in the step that processes a status
\* request for this slave with the expected counter and payload [0x20], and
\* then its head alone, without an error; a broadcast, a scan, a packet for
\* another address and a packet that raises an error leave the queue as it
\* is; the queue grows only by the entry pushCommand appends, and no step
\* reorders or replaces entries.
Thm_C38_QueueFrame ==
    [][ /\ Len(sendQueue') < Len(sendQueue) =>
              /\ Handed(lastPacket')
              /\ ValidStatusRequest(lastPacket', nextMessageCounter)
              /\ ~ErrorIn(out')
              /\ sendQueue' = Tail(sendQueue)
        /\ ( /\ Handed(lastPacket')
             /\ \/ address(lastPacket') # SLAVE
                \/ payload(lastPacket')[1] = SLAVE_SCAN
                \/ ErrorIn(out') ) =>
              sendQueue' = sendQueue
        /\ Len(sendQueue') > Len(sendQueue) =>
              /\ ~Handed(lastPacket')
              /\ Len(commands') = Len(commands) + 1
              /\ sendQueue' = Append(sendQueue, [id |-> Len(commands'),
                                                  payload |-> commands'[Len(commands')]])
        /\ Len(sendQueue') = Len(sendQueue) => sendQueue' = sendQueue
      ]_vars

\* the second of two queued commands is the head after a status request took
\* the first, and packets that are refused have arrived since
Wit_C38_HeadTakenOnly ==
    /\ Len(commands) = 2 /\ consumed = <<1>>
    /\ Len(sendQueue) = 1 /\ sendQueue[1].id = 2
    /\ Processed /\ Raised

\* ------------------------------------------------------------------ C39
ReportedStates ==
    { CurrentDoorState_OPEN, CurrentDoorState_CLOSED, CurrentDoorState_OPENING,
      CurrentDoorState_CLOSING, CurrentDoorState_VENTING }

\* C39: the current door state kept is unset or one of OPEN, CLOSED, OPENING,
\* CLOSING and VENTING, never STOPPED; the broadcast by which the mock client
\* reports STOPPED after an emergency stop emits no update event, only the
\* error "Error active" (nothing when its byte 0 is the one kept).
Thm_C39_NeverStopped ==
    /\ currentState # <<CurrentDoorState_STOPPED>>
    /\ currentState = Unset \/ \E d \in ReportedStates : currentState = <<d>>
    /\ \A light \in BOOLEAN :
          ( /\ Delivered
            /\ doorCall.arg = garageStateToBroadcastStatus(CurrentDoorState_STOPPED, light) ) =>
              \A i \in 1..Len(doorOut) : doorOut[i] = DoorEv("error", "Error active")

\* the door was venting when the mock client reported STOPPED: the error is
\* emitted and the door is still kept as venting
Wit_C39_StopWhileVenting ==
    /\ Delivered
    /\ doorCall.arg = garageStateToBroadcastStatus(CurrentDoorState_STOPPED, FALSE)
    /\ doorOut = <<DoorEv("error", "Error active")>>
    /\ currentState = <<CurrentDoorState_VENTING>>

\* ------------------------------------------------------------------ C40
\* C40: after every call of _transform of the batch parser, 0 <= offset <= 35
\* and 0 <= minUntestedIdx <= 17; no turn of its loop popped more bytes than
\* the buffer held; the call has returned with every byte of the filtered
\* chunk copied into the buffer, no turn that found the buffer full having
\* popped nothing.
Thm_C40_BatchBookkeeping ==
    Is("BatchHCPPacketParser") =>
        /\ parser.offset >= 0 /\ parser.offset <= BATCH_BUFFER_LENGTH
        /\ parser.minUntestedIdx >= 0 /\ parser.minUntestedIdx <= MAX_PACKET_LENGTH - 1
        /\ history.batchCall.overPopped = 0
        /\ history.batchCall.uncopied = 0
        /\ history.batchCall.fullKept = 0

\* 40 bytes written at once: the buffer was filled, 18 bytes of the line held
\* high were dropped, the rest was copied and the four frames were pushed
Wit_C40_FullBufferRewound ==
    /\ Is("BatchHCPPacketParser")
    /\ Written > BATCH_BUFFER_LENGTH /\ wire = <<>>
    /\ history.batchCall.full = 1
    /\ pushes = <<FrameA, FrameB, FrameC, FrameD>>

====
